---- MODULE Spec2Model ----
(***************************************************************************)
(* JustCite: the citation key generator and the style formatter of         *)
(* chrome/citationFormatter.js, and the requests of the popup of           *)
(* chrome/popup.js.                                                        *)
(*                                                                         *)
(* A JavaScript string is a sequence of one-character strings.  A          *)
(* JavaScript value is a record tagged by its type: [t |-> "string", s],   *)
(* [t |-> "number", n], [t |-> "boolean", b], [t |-> "undefined"].  A call *)
(* returns a value or the completion [t |-> "throw"] (an uncaught           *)
(* TypeError).                                                             *)
(***************************************************************************)
EXTENDS Integers, Sequences, FiniteSets, TLC

VARIABLES metadata, now, call, popup

vars == <<metadata, now, call, popup>>

----------------------------------------------------------------------------
(* Bounds of the model.                                                    *)

\* shorttitle(n,m) templates are enumerated for n up to MaxWords ...
MaxWords == 3
\* ... and m up to MaxChars.
MaxChars == 3
\* Number of midnights the clock passes during a session.
MaxTicks == 2
\* Number of fetchMetadata calls that may be in flight at once.
MaxTasks == 2

----------------------------------------------------------------------------
(* JavaScript values.                                                      *)

Undefined == [t |-> "undefined"]
Throw == [t |-> "throw"]
Str(s) == [t |-> "string", s |-> s]
Num(n) == [t |-> "number", n |-> n]
Bool(b) == [t |-> "boolean", b |-> b]
Null == [t |-> "null"]

IsString(v) == v.t = "string"

\* ToBoolean: undefined, '', 0 and false are falsy.
Truthy(v) ==
    CASE v.t = "undefined" -> FALSE
      [] v.t = "string" -> v.s # <<>>
      [] v.t = "number" -> v.n # 0
      [] v.t = "boolean" -> v.b
      [] v.t = "null" -> FALSE
      [] OTHER -> TRUE

\* a || b
OrElse(a, b) == IF Truthy(a) THEN a ELSE b

----------------------------------------------------------------------------
(* Characters and the String.prototype methods the formatter uses.         *)

LowerLetters == <<"a","b","c","d","e","f","g","h","i","j","k","l","m","n","o","p","q","r","s","t","u","v","w","x","y","z">>
UpperLetters == <<"A","B","C","D","E","F","G","H","I","J","K","L","M","N","O","P","Q","R","S","T","U","V","W","X","Y","Z">>
DigitChars == <<"0","1","2","3","4","5","6","7","8","9">>

Range(s) == {s[i] : i \in 1..Len(s)}
LowerSet == Range(LowerLetters)
UpperSet == Range(UpperLetters)
DigitSet == Range(DigitChars)
\* \s of a regular expression, and what trim() strips
WhiteSpace == {" ", "\t", "\n"}

IndexIn(c, s) == CHOOSE i \in 1..Len(s) : s[i] = c

\* Mutant: the call of toLowerCase() forgotten
toLowerCaseForgotten(s) == s

toLowerCase(s) ==
    [i \in 1..Len(s) |->
        IF s[i] \in UpperSet THEN LowerLetters[IndexIn(s[i], UpperLetters)] ELSE s[i]]

toUpperCase(s) ==
    [i \in 1..Len(s) |->
        IF s[i] \in LowerSet THEN UpperLetters[IndexIn(s[i], LowerLetters)] ELSE s[i]]

\* s.replace(/[^...]/g, '') for a character class: keep the characters of keep
RECURSIVE KeepOnly(_, _)
KeepOnly(s, keep) ==
    IF s = <<>> THEN <<>>
    ELSE (IF s[1] \in keep THEN <<s[1]>> ELSE <<>>) \o KeepOnly(Tail(s), keep)

RECURSIVE trimStart(_)
trimStart(s) == IF s # <<>> /\ s[1] \in WhiteSpace THEN trimStart(Tail(s)) ELSE s

RECURSIVE trimEnd(_)
trimEnd(s) ==
    IF s # <<>> /\ s[Len(s)] \in WhiteSpace THEN trimEnd(SubSeq(s, 1, Len(s) - 1)) ELSE s

trim(s) == trimEnd(trimStart(s))

\* s.slice(k) for k >= 0 and s.slice(-k): the tail from index k, the last k characters
sliceFrom(s, k) == SubSeq(s, k + 1, Len(s))
sliceLast(s, k) == IF Len(s) <= k THEN s ELSE SubSeq(s, Len(s) - k + 1, Len(s))
\* s.slice(0, k), also of an array
sliceTo(s, k) == IF Len(s) <= k THEN s ELSE SubSeq(s, 1, k)

startsWith(s, p) ==
    \/ p = <<>>
    \/ Len(s) >= Len(p) /\ s[1] = p[1] /\ SubSeq(s, 1, Len(p)) = p

includes(s, c) == c \in Range(s)

\* s.split(c) for a one-character separator: always at least one piece
RECURSIVE split(_, _)
split(s, c) ==
    IF ~includes(s, c) THEN <<s>>
    ELSE LET i == CHOOSE k \in 1..Len(s) : s[k] = c /\ \A j \in 1..(k - 1) : s[j] # c
         IN  <<SubSeq(s, 1, i - 1)>> \o split(SubSeq(s, i + 1, Len(s)), c)

\* s.split(/\s+/): split at every maximal run of white space
RECURSIVE splitSpaces(_)
splitSpaces(s) ==
    IF Range(s) \cap WhiteSpace = {} THEN <<s>>
    ELSE LET i == CHOOSE k \in 1..Len(s) :
                      s[k] \in WhiteSpace /\ \A j \in 1..(k - 1) : s[j] \notin WhiteSpace
         IN  <<SubSeq(s, 1, i - 1)>> \o splitSpaces(trimStart(SubSeq(s, i, Len(s))))

\* a.join(sep)
RECURSIVE join(_, _)
join(a, sep) ==
    IF a = <<>> THEN <<>>
    ELSE IF Len(a) = 1 THEN a[1]
    ELSE a[1] \o sep \o join(Tail(a), sep)

\* Mutant: the filter w.length > 1
RECURSIVE filterLongerThanOne(_)
filterLongerThanOne(a) ==
    IF a = <<>> THEN <<>>
    ELSE (IF Len(a[1]) > 1 THEN <<a[1]>> ELSE <<>>) \o filterLongerThanOne(Tail(a))

\* a.filter(w => w.length > 0)
RECURSIVE filterNonEmpty(_)
filterNonEmpty(a) ==
    IF a = <<>> THEN <<>>
    ELSE (IF a[1] # <<>> THEN <<a[1]>> ELSE <<>>) \o filterNonEmpty(Tail(a))

\* s.replace(/pat/g, rep) for a literal pattern and a replacement without '$':
\* leftmost matches, not overlapping, the replacement is not scanned again
RECURSIVE replaceAll(_, _, _)
replaceAll(s, pat, rep) ==
    LET at == {i \in 1..(Len(s) - Len(pat) + 1) :
                  s[i] = pat[1] /\ SubSeq(s, i, i + Len(pat) - 1) = pat}
    IN  IF at = {} THEN s
        ELSE LET i == CHOOSE k \in at : \A j \in at : k <= j
             IN  SubSeq(s, 1, i - 1) \o rep
                     \o replaceAll(sliceFrom(s, i + Len(pat) - 1), pat, rep)

\* parseInt of a string of decimal digits
RECURSIVE parseInt(_)
parseInt(s) ==
    IF s = <<>> THEN 0
    ELSE 10 * parseInt(SubSeq(s, 1, Len(s) - 1)) + (IndexIn(s[Len(s)], DigitChars) - 1)

\* Number.prototype.toString of a natural number
RECURSIVE toString(_)
toString(n) ==
    IF n < 10 THEN <<DigitChars[n + 1]>>
    ELSE toString(n \div 10) \o <<DigitChars[(n % 10) + 1]>>

\* length of the longest prefix of s made of characters of class
RECURSIVE spanOf(_, _)
spanOf(s, class) == IF s # <<>> /\ s[1] \in class THEN 1 + spanOf(Tail(s), class) ELSE 0

----------------------------------------------------------------------------
(* The clock: the local calendar date new Date() reads.                    *)

isLeapYear(y) == (y % 4 = 0 /\ y % 100 # 0) \/ y % 400 = 0

daysInMonth(y, m) ==
    IF m = 2 THEN (IF isLeapYear(y) THEN 29 ELSE 28)
    ELSE IF m \in {4, 6, 9, 11} THEN 30 ELSE 31

\* the date one midnight later
nextDay(d) ==
    IF d.day < daysInMonth(d.year, d.month) THEN [d EXCEPT !.day = d.day + 1]
    ELSE IF d.month < 12 THEN [year |-> d.year, month |-> d.month + 1, day |-> 1]
    ELSE [year |-> d.year + 1, month |-> 1, day |-> 1]

\* Mutant: getDate() called for getFullYear()
getDate(d) == d.day

\* new Date().getFullYear()
getFullYear(d) == d.year

----------------------------------------------------------------------------
(* generateKeyFromFormat and generateKey.                                  *)

DEFAULT_KEY_FORMAT == <<"a","u","t","h",".","l","o","w","e","r"," ","+"," ","s","h","o","r","t","t","i","t","l","e","(","3",",","3",")"," ","+"," ","y","e","a","r">>

\* line 31: author.split(/[;]/)[0].trim()
firstAuthor(author) == trim(split(author, ";")[1])

\* lines 31-43: the first author's last name, reduced to its ASCII letters
cleanLastName(author) ==
    LET first == firstAuthor(author)
        parts == split(first, " ")
        lastName == IF includes(first, ",")
                    THEN trim(split(first, ",")[1])
                    ELSE IF parts[Len(parts)] # <<>> THEN parts[Len(parts)] ELSE first
    IN  KeepOnly(lastName, LowerSet \cup UpperSet)

\* line 51: charAt(0).toUpperCase() + slice(1).toLowerCase()
capitalize(s) == toUpperCase(sliceTo(s, 1)) \o toLowerCase(sliceFrom(s, 1))

\* line 54: title.split(/\s+/)[0].toLowerCase().replace(/[^a-z]/g, '')
firstTitleWord(title) == KeepOnly(toLowerCase(splitSpaces(title)[1]), LowerSet)

\* Mutant: slice(0, parseInt(numWords) - 1), one word short
shortTitleOneWordShort(title, numWords, maxChars) ==
    LET words == sliceTo(splitSpaces(title), numWords - 1)
        cut == [i \in 1..Len(words) |->
                   sliceTo(KeepOnly(toLowerCase(words[i]), LowerSet), maxChars)]
    IN  join(filterNonEmpty(cut), <<"_">>)

\* lines 58-62: the callback of the shorttitle replacement
shortTitle(title, numWords, maxChars) ==
    LET words == sliceTo(splitSpaces(title), numWords)
        cut == [i \in 1..Len(words) |->
                   sliceTo(KeepOnly(toLowerCase(words[i]), LowerSet), maxChars)]
    IN  join(filterNonEmpty(cut), <<"_">>)

\* /shorttitle\((\d+),\s*(\d+)\)/ matched at the start of s:
\* the length of the match (0 when there is none) and the two groups
matchShortTitle(s) ==
    LET open == <<"s","h","o","r","t","t","i","t","l","e","(">>
        a == sliceFrom(s, Len(open))
        d1 == spanOf(a, DigitSet)
        b == sliceFrom(a, d1)
        c == sliceFrom(b, 1)
        w == spanOf(c, WhiteSpace)
        d == sliceFrom(c, w)
        d2 == spanOf(d, DigitSet)
        e == sliceFrom(d, d2)
    IN  IF /\ startsWith(s, open)
           /\ d1 > 0
           /\ startsWith(b, <<",">>)
           /\ d2 > 0
           /\ startsWith(e, <<")">>)
        THEN [len |-> Len(open) + d1 + 1 + w + d2 + 1,
              numWords |-> sliceTo(a, d1), maxChars |-> sliceTo(d, d2)]
        ELSE [len |-> 0, numWords |-> <<>>, maxChars |-> <<>>]

\* line 57: key.replace(/shorttitle\((\d+),\s*(\d+)\)/g, callback)
RECURSIVE replaceShortTitle(_, _)
replaceShortTitle(s, title) ==
    LET at == {i \in 1..Len(s) : s[i] = "s" /\ matchShortTitle(sliceFrom(s, i - 1)).len > 0}
    IN  IF at = {} THEN s
        ELSE LET i == CHOOSE k \in at : \A j \in at : k <= j
                 m == matchShortTitle(sliceFrom(s, i - 1))
             IN  SubSeq(s, 1, i - 1)
                     \o shortTitle(title, parseInt(m.numWords), parseInt(m.maxChars))
                     \o replaceShortTitle(sliceFrom(s, i - 1 + m.len), title)

\* lines 49-63: the token rules, each a global replacement, in the order of the code
substituteTokens(format, lastName, year, title) ==
    LET k1 == replaceAll(format, <<"a","u","t","h",".","l","o","w","e","r">>, toLowerCase(lastName))
        k2 == replaceAll(k1, <<"a","u","t","h",".","u","p","p","e","r">>, toUpperCase(lastName))
        k3 == replaceAll(k2, <<"A","u","t","h">>, capitalize(lastName))
        k4 == replaceAll(k3, <<"y","e","a","r">>, year)
        k5 == replaceAll(k4, <<"s","h","o","r","t","y","e","a","r">>, sliceLast(year, 2))
        k6 == replaceAll(k5, <<"t","i","t","l","e",".","l","o","w","e","r">>, firstTitleWord(title))
    IN  replaceShortTitle(k6, title)

\* line 66: key.replace(/\s*\+\s*/g, '_')
RECURSIVE replacePlus(_)
replacePlus(s) ==
    IF ~includes(s, "+") THEN s
    ELSE LET i == CHOOSE k \in 1..Len(s) : s[k] = "+" /\ \A j \in 1..(k - 1) : s[j] # "+"
         IN  trimEnd(SubSeq(s, 1, i - 1)) \o <<"_">>
                 \o replacePlus(trimStart(sliceFrom(s, i)))

\* line 67: key.replace(/_+/g, '_')
RECURSIVE collapseUnderscores(_)
collapseUnderscores(s) ==
    IF ~includes(s, "_") THEN s
    ELSE LET i == CHOOSE k \in 1..Len(s) : s[k] = "_" /\ \A j \in 1..(k - 1) : s[j] # "_"
             rest == sliceFrom(s, i - 1)
         IN  SubSeq(s, 1, i) \o collapseUnderscores(sliceFrom(rest, spanOf(rest, {"_"})))

\* Mutant: the underscores at the two ends are kept
keepEdgeUnderscores(s) == s

\* line 68: key.replace(/^_|_$/g, '')
trimUnderscores(s) ==
    LET a == IF startsWith(s, <<"_">>) THEN Tail(s) ELSE s
    IN  IF a # <<>> /\ a[Len(a)] = "_" THEN SubSeq(a, 1, Len(a) - 1) ELSE a

\* lines 66-68
cleanSeparators(key) == trimUnderscores(collapseUnderscores(replacePlus(key)))

\* Mutant: metadata.author without its default
authorNoDefault(md) == md.author

\* line 26
authorOrDefault(md) == OrElse(md.author, Str(<<"u","n","k","n","o","w","n">>))
\* line 27
titleOrDefault(md) == OrElse(md.title, Str(<<"u","n","t","i","t","l","e","d">>))
\* line 28
yearOrDefault(md, clock) == OrElse(md.year, Str(toString(getFullYear(clock))))

\* Mutant: return key, without the fallback
keyNoFallback(key) == key

\* line 70: key || 'citation'
keyOrFallback(key) == IF key # <<>> THEN key ELSE <<"c","i","t","a","t","i","o","n">>

\* lines 25-71.  A method call on a value that is no string (author.split,
\* key.replace, year.slice, title.split) raises a TypeError.
generateKeyFromFormat(md, format, clock) ==
    LET author == authorOrDefault(md)
        title == titleOrDefault(md)
        year == yearOrDefault(md, clock)
    IN  IF ~IsString(author) \/ ~IsString(format) \/ ~IsString(year) \/ ~IsString(title)
        THEN Throw
        ELSE Str(keyOrFallback(cleanSeparators(
                 substituteTokens(format.s, cleanLastName(author.s), year.s, title.s))))

\* lines 10-12
generateKey(md, clock) == generateKeyFromFormat(md, Str(DEFAULT_KEY_FORMAT), clock)

----------------------------------------------------------------------------
(* Template literals and the author helpers of the style formatter.        *)

\* `${v}`: String(v)
text(v) ==
    CASE v.t = "string" -> v.s
      [] v.t = "number" -> toString(v.n)
      [] v.t = "boolean" -> IF v.b THEN <<"t","r","u","e">> ELSE <<"f","a","l","s","e">>
      [] OTHER -> <<"u","n","d","e","f","i","n","e","d">>

\* a[i] of an array of strings, from 0: undefined outside the array
elementAt(a, i) == IF i \in 0..(Len(a) - 1) THEN Str(a[i + 1]) ELSE Undefined

\* the leftmost match of /;|(\sand\s)/ in s: its position and length (0: no match)
authorSeparator(s) ==
    LET at == {i \in 1..Len(s) :
                  \/ s[i] = ";"
                  \/ /\ i + 4 <= Len(s)
                     /\ s[i] \in WhiteSpace
                     /\ SubSeq(s, i + 1, i + 3) = <<"a","n","d">>
                     /\ s[i + 4] \in WhiteSpace}
    IN  IF at = {} THEN [pos |-> 0, len |-> 0]
        ELSE LET i == CHOOSE k \in at : \A j \in at : k <= j
             IN  [pos |-> i, len |-> IF s[i] = ";" THEN 1 ELSE 5]

\* authors.split(/;|(\sand\s)/): the pieces, and after each separator what the
\* group captured (undefined for a semicolon)
RECURSIVE splitAuthors(_)
splitAuthors(s) ==
    LET m == authorSeparator(s)
    IN  IF m.len = 0 THEN <<Str(s)>>
        ELSE <<Str(SubSeq(s, 1, m.pos - 1)),
               IF m.len = 1 THEN Undefined ELSE Str(SubSeq(s, m.pos, m.pos + 4))>>
                 \o splitAuthors(sliceFrom(s, m.pos + m.len - 1))

\* .filter(a => a && a.trim() !== 'and').map(a => a.trim())
RECURSIVE filterTrimAuthors(_)
filterTrimAuthors(a) ==
    IF a = <<>> THEN <<>>
    ELSE (IF Truthy(a[1]) /\ trim(a[1].s) # <<"a","n","d">> THEN <<trim(a[1].s)>> ELSE <<>>)
             \o filterTrimAuthors(Tail(a))

\* lines 80 and 465: the author list
authorList(authors) == filterTrimAuthors(splitAuthors(authors))

\* .map(p => p.trim()) of an array of strings
trimEach(a) == [i \in 1..Len(a) |-> trim(a[i])]

\* .map(n => n.charAt(0).toUpperCase() + '.').join(' ')
initialsOf(names) ==
    join([i \in 1..Len(names) |-> toUpperCase(sliceTo(names[i], 1)) \o <<".">>], <<" ">>)

\* Mutant: the name returned as it was written
formatAuthorAPAAsWritten(author) ==
    IF ~IsString(author) THEN Throw ELSE author

\* lines 127-141; the argument is a[i], undefined outside the list
formatAuthorAPA(author) ==
    IF ~IsString(author) THEN Throw
    ELSE LET parts == trimEach(split(author.s, ","))
             words == split(author.s, " ")
         IN  IF Len(parts) >= 2
             THEN Str(parts[1] \o <<","," ">> \o initialsOf(split(parts[2], " ")))
             ELSE IF Len(words) >= 2
             THEN Str(words[Len(words)] \o <<","," ">>
                          \o initialsOf(SubSeq(words, 1, Len(words) - 1)))
             ELSE author

\* Mutant: a name without a comma is never inverted
formatAuthorMLANeverInverted(author, invertOrder) ==
    IF ~IsString(author) THEN Throw
    ELSE LET parts == trimEach(split(author.s, ","))
         IN  IF Len(parts) >= 2
             THEN Str(IF invertOrder THEN parts[2] \o <<" ">> \o parts[1]
                                     ELSE parts[1] \o <<","," ">> \o parts[2])
             ELSE author

\* lines 143-153
formatAuthorMLA(author, invertOrder) ==
    IF ~IsString(author) THEN Throw
    ELSE LET parts == trimEach(split(author.s, ","))
             words == split(author.s, " ")
         IN  IF Len(parts) >= 2
             THEN Str(IF invertOrder THEN parts[2] \o <<" ">> \o parts[1]
                                     ELSE parts[1] \o <<","," ">> \o parts[2])
             ELSE IF Len(words) >= 2 /\ ~invertOrder
             THEN Str(words[Len(words)] \o <<","," ">>
                          \o join(SubSeq(words, 1, Len(words) - 1), <<" ">>))
             ELSE author

\* lines 155-157
formatAuthorChicago(author, invertOrder) == formatAuthorMLA(author, invertOrder)

\* a template literal or a join of already computed values: the text of the
\* parts, unless computing one of them threw
template(parts) ==
    IF \E i \in 1..Len(parts) : parts[i] = Throw THEN Throw
    ELSE LET RECURSIVE cat(_)
             cat(k) == IF k > Len(parts) THEN <<>> ELSE text(parts[k]) \o cat(k + 1)
         IN  Str(cat(1))

\* a.map(f).join(sep) where f may throw; parts are the values f returned
joinValues(parts, sep) ==
    template([i \in 1..(2 * Len(parts) - 1) |->
                 IF i % 2 = 1 THEN parts[(i + 1) \div 2] ELSE Str(sep)])

\* the longest author list APA prints in full (line 92)
ApaMaxAuthors == 20

\* lines 76-125
formatAuthors(authors, style) ==
    IF ~Truthy(authors) THEN Str(<<>>)
    ELSE IF ~IsString(authors) THEN Throw
    ELSE LET list == authorList(authors.s)
             n == Len(list)
             apa(i) == formatAuthorAPA(elementAt(list, i))
         IN  CASE style = <<"b","i","b","t","e","x">> -> Str(join(list, <<" ","a","n","d"," ">>))
               [] style = <<"a","p","a">> ->
                    IF n = 1 THEN apa(0)
                    ELSE IF n = 2 THEN template(<<apa(0), Str(<<" ","&"," ">>), apa(1)>>)
                    ELSE IF n > 2 /\ n <= ApaMaxAuthors
                    THEN template(<<joinValues([i \in 1..(n - 1) |-> apa(i - 1)], <<","," ">>),
                                    Str(<<","," ","&"," ">>), apa(n - 1)>>)
                    ELSE template(<<joinValues([i \in 1..(IF n < 19 THEN n ELSE 19) |->
                                                   apa(i - 1)], <<","," ">>),
                                    Str(<<","," ",".",".","."," ">>), apa(n - 1)>>)
               [] style = <<"m","l","a">> ->
                    IF n = 1 THEN formatAuthorMLA(elementAt(list, 0), FALSE)
                    ELSE IF n = 2
                    THEN template(<<formatAuthorMLA(elementAt(list, 0), FALSE),
                                    Str(<<","," ","a","n","d"," ">>),
                                    formatAuthorMLA(elementAt(list, 1), TRUE)>>)
                    ELSE template(<<formatAuthorMLA(elementAt(list, 0), FALSE),
                                    Str(<<","," ","e","t"," ","a","l",".">>)>>)
               [] style = <<"c","h","i","c","a","g","o">> ->
                    IF n = 1 THEN formatAuthorChicago(elementAt(list, 0), FALSE)
                    ELSE IF n <= 3
                    THEN template(<<joinValues([i \in 1..(IF n = 0 THEN 0 ELSE n - 1) |->
                                                   formatAuthorChicago(elementAt(list, i - 1),
                                                                       i # 1)], <<","," ">>),
                                    Str(<<","," ","a","n","d"," ">>),
                                    formatAuthorChicago(elementAt(list, n - 1), TRUE)>>)
                    ELSE template(<<formatAuthorChicago(elementAt(list, 0), FALSE),
                                    Str(<<" ","e","t"," ","a","l",".">>)>>)
               [] OTHER -> joinValues([i \in 1..n |-> apa(i - 1)], <<","," ">>)

\* lines 463-480
formatAuthorsIEEE(authors) ==
    IF ~Truthy(authors) THEN Str(<<>>)
    ELSE IF ~IsString(authors) THEN Throw
    ELSE LET list == authorList(authors.s)
             one(author) ==
                 LET parts == trimEach(split(author, ","))
                     words == split(author, " ")
                 IN  IF Len(parts) >= 2
                     THEN initialsOf(split(parts[2], " ")) \o <<" ">> \o parts[1]
                     ELSE IF Len(words) >= 2
                     THEN initialsOf(SubSeq(words, 1, Len(words) - 1)) \o <<" ">>
                              \o words[Len(words)]
                     ELSE author
         IN  Str(join([i \in 1..Len(list) |-> one(list[i])], <<","," ">>))

----------------------------------------------------------------------------
(* Dates.  The browser's time zone is taken to be UTC, so that the local   *)
(* date of new Date('YYYY-MM-DD') is the date written.                     *)

MonthsLong ==
    <<<<"J","a","n","u","a","r","y">>, <<"F","e","b","r","u","a","r","y">>, <<"M","a","r","c","h">>, <<"A","p","r","i","l">>, <<"M","a","y">>, <<"J","u","n","e">>, <<"J","u","l","y">>,
      <<"A","u","g","u","s","t">>, <<"S","e","p","t","e","m","b","e","r">>, <<"O","c","t","o","b","e","r">>, <<"N","o","v","e","m","b","e","r">>, <<"D","e","c","e","m","b","e","r">>>>

MonthsShort ==
    <<<<"J","a","n">>, <<"F","e","b">>, <<"M","a","r">>, <<"A","p","r">>, <<"M","a","y">>, <<"J","u","n">>, <<"J","u","l">>, <<"A","u","g">>, <<"S","e","p">>,
      <<"O","c","t">>, <<"N","o","v">>, <<"D","e","c">>>>

InvalidDate == [valid |-> FALSE, year |-> 0, month |-> 0, day |-> 0]

\* new Date(s) for a string: a calendar date written YYYY-MM-DD is that date,
\* a string without any digit is an Invalid Date (getTime() is NaN)
newDate(s) ==
    LET y == parseInt(SubSeq(s, 1, 4))
        m == parseInt(SubSeq(s, 6, 7))
        d == parseInt(SubSeq(s, 9, 10))
    IN  IF /\ Len(s) = 10
           /\ s[5] = "-" /\ s[8] = "-"
           /\ \A i \in {1, 2, 3, 4, 6, 7, 9, 10} : s[i] \in DigitSet
           /\ m \in 1..12
           /\ d \in 1..daysInMonth(y, m)
        THEN [valid |-> TRUE, year |-> y, month |-> m, day |-> d]
        ELSE InvalidDate

\* toLocaleDateString('en-US', {month: 'long', day: 'numeric', year: 'numeric'})
localeDateLong(d) ==
    MonthsLong[d.month] \o <<" ">> \o toString(d.day) \o <<","," ">> \o toString(d.year)

\* toLocaleDateString('en-US', {day: 'numeric', month: 'short', year: 'numeric'})
localeDateShort(d) ==
    MonthsShort[d.month] \o <<" ">> \o toString(d.day) \o <<","," ">> \o toString(d.year)

\* two digits, zero padded
pad2(n) == IF n < 10 THEN <<"0">> \o toString(n) ELSE toString(n)

\* toISOString().split('T')[0]
isoDate(d) == toString(d.year) \o <<"-">> \o pad2(d.month) \o <<"-">> \o pad2(d.day)

\* lines 162-200; date is a string or absent
formatDate(md, style) ==
    LET year == OrElse(md.year, Str(<<>>))
        date == OrElse(md.date, Str(<<>>))
        d == newDate(date.s)
    IN  IF ~Truthy(year) /\ ~Truthy(date) THEN Str(<<"n",".","d",".">>)
        ELSE CASE style = <<"a","p","a">> ->
                    IF Truthy(year) THEN year
                    ELSE IF d.valid THEN Str(toString(d.year)) ELSE Str(<<"N","a","N">>)
               [] style = <<"m","l","a">> ->
                    IF Truthy(date) /\ d.valid
                    THEN Str(toString(d.day) \o <<" ">> \o MonthsShort[d.month] \o <<"."," ">>
                                 \o toString(d.year))
                    ELSE year
               [] style = <<"c","h","i","c","a","g","o">> ->
                    IF Truthy(date) /\ d.valid THEN Str(localeDateLong(d)) ELSE year
               [] OTHER -> OrElse(year, date)

\* lines 205-216; clock is new Date()
getAccessDate(style, clock) ==
    CASE style = <<"m","l","a">> -> localeDateShort(clock)
      [] style = <<"c","h","i","c","a","g","o">> -> localeDateLong(clock)
      [] OTHER -> localeDateLong(clock)

----------------------------------------------------------------------------
(* The six styles.                                                         *)

\* if (cond) citation += s
opt(cond, s) == IF cond THEN s ELSE <<>>

\* the prose styles branch on these
isWeb(md) == md.sourceType = Str(<<"w","e","b","p","a","g","e">>) \/ md.sourceType = Str(<<"n","e","w","s">>)
isArticle(md) == md.sourceType = Str(<<"j","o","u","r","n","a","l">>) \/ md.sourceType = Str(<<"a","r","t","i","c","l","e">>)
isBook(md) == md.sourceType = Str(<<"b","o","o","k">>)

\* typeMap is an object literal, so typeMap[name] also finds what every object
\* inherits from Object.prototype: functions, which a template literal prints
\* as their source text (two of the inherited names)
InheritedFunctions == {<<"c","o","n","s","t","r","u","c","t","o","r">>, <<"t","o","S","t","r","i","n","g">>}

functionText(name) ==
    <<"f","u","n","c","t","i","o","n"," ">> \o (IF name = <<"c","o","n","s","t","r","u","c","t","o","r">> THEN <<"O","b","j","e","c","t">> ELSE name)
        \o <<"(",")"," ","{"," ","[","n","a","t","i","v","e"," ","c","o","d","e","]"," ","}">>

\* lines 253-267
getBibTeXType(sourceType, md) ==
    IF (sourceType = Str(<<"a","r","t","i","c","l","e">>) \/ sourceType = Str(<<"j","o","u","r","n","a","l">>)) /\ ~Truthy(md.journal)
    THEN <<"m","i","s","c">>
    ELSE CASE sourceType = Str(<<"w","e","b","p","a","g","e">>) -> <<"o","n","l","i","n","e">>
           [] sourceType = Str(<<"a","r","t","i","c","l","e">>) -> <<"a","r","t","i","c","l","e">>
           [] sourceType = Str(<<"b","o","o","k">>) -> <<"b","o","o","k">>
           [] sourceType = Str(<<"j","o","u","r","n","a","l">>) -> <<"a","r","t","i","c","l","e">>
           [] sourceType = Str(<<"n","e","w","s">>) -> <<"a","r","t","i","c","l","e">>
           [] IsString(sourceType) /\ sourceType.s \in InheritedFunctions ->
                functionText(sourceType.s)
           [] OTHER -> <<"m","i","s","c">>

\* one line of a BibTeX entry:   name = {value}
bibField(name, value) == <<" "," ">> \o name \o <<" ","="," ","{">> \o value \o <<"}">>

\* Mutant: the year pushed before the title
bibFieldsYearFirst(md, formattedAuthors, clock) ==
    opt(Truthy(md.author), <<bibField(<<"a","u","t","h","o","r">>, formattedAuthors)>>)
    \o opt(Truthy(md.year), <<bibField(<<"y","e","a","r">>, text(md.year))>>)
    \o opt(Truthy(md.title), <<bibField(<<"t","i","t","l","e">>, text(md.title))>>)
    \o opt(Truthy(md.url), <<bibField(<<"u","r","l">>, text(md.url))>>)
    \o opt(Truthy(md.publisher), <<bibField(<<"p","u","b","l","i","s","h","e","r">>, text(md.publisher))>>)
    \o opt(Truthy(md.journal), <<bibField(<<"j","o","u","r","n","a","l">>, text(md.journal))>>)
    \o opt(Truthy(md.volume), <<bibField(<<"v","o","l","u","m","e">>, text(md.volume))>>)
    \o opt(Truthy(md.issue), <<bibField(<<"n","u","m","b","e","r">>, text(md.issue))>>)
    \o opt(Truthy(md.pages), <<bibField(<<"p","a","g","e","s">>, text(md.pages))>>)
    \o opt(Truthy(md.doi), <<bibField(<<"d","o","i">>, text(md.doi))>>)
    \o opt(Truthy(md.isbn), <<bibField(<<"i","s","b","n">>, text(md.isbn))>>)
    \o opt(Truthy(md.includeAccessDate) /\ Truthy(md.url),
           <<bibField(<<"u","r","l","d","a","t","e">>, isoDate(clock))>>)

\* Mutant: urldate pushed for every url
bibFieldsUrldateAlways(md, formattedAuthors, clock) ==
    opt(Truthy(md.author), <<bibField(<<"a","u","t","h","o","r">>, formattedAuthors)>>)
    \o opt(Truthy(md.title), <<bibField(<<"t","i","t","l","e">>, text(md.title))>>)
    \o opt(Truthy(md.year), <<bibField(<<"y","e","a","r">>, text(md.year))>>)
    \o opt(Truthy(md.url), <<bibField(<<"u","r","l">>, text(md.url))>>)
    \o opt(Truthy(md.publisher), <<bibField(<<"p","u","b","l","i","s","h","e","r">>, text(md.publisher))>>)
    \o opt(Truthy(md.journal), <<bibField(<<"j","o","u","r","n","a","l">>, text(md.journal))>>)
    \o opt(Truthy(md.volume), <<bibField(<<"v","o","l","u","m","e">>, text(md.volume))>>)
    \o opt(Truthy(md.issue), <<bibField(<<"n","u","m","b","e","r">>, text(md.issue))>>)
    \o opt(Truthy(md.pages), <<bibField(<<"p","a","g","e","s">>, text(md.pages))>>)
    \o opt(Truthy(md.doi), <<bibField(<<"d","o","i">>, text(md.doi))>>)
    \o opt(Truthy(md.isbn), <<bibField(<<"i","s","b","n">>, text(md.isbn))>>)
    \o opt(Truthy(md.url),
           <<bibField(<<"u","r","l","d","a","t","e">>, isoDate(clock))>>)

\* lines 226-248: the lines of the entry, in the order they are pushed
bibFields(md, formattedAuthors, clock) ==
    opt(Truthy(md.author), <<bibField(<<"a","u","t","h","o","r">>, formattedAuthors)>>)
    \o opt(Truthy(md.title), <<bibField(<<"t","i","t","l","e">>, text(md.title))>>)
    \o opt(Truthy(md.year), <<bibField(<<"y","e","a","r">>, text(md.year))>>)
    \o opt(Truthy(md.url), <<bibField(<<"u","r","l">>, text(md.url))>>)
    \o opt(Truthy(md.publisher), <<bibField(<<"p","u","b","l","i","s","h","e","r">>, text(md.publisher))>>)
    \o opt(Truthy(md.journal), <<bibField(<<"j","o","u","r","n","a","l">>, text(md.journal))>>)
    \o opt(Truthy(md.volume), <<bibField(<<"v","o","l","u","m","e">>, text(md.volume))>>)
    \o opt(Truthy(md.issue), <<bibField(<<"n","u","m","b","e","r">>, text(md.issue))>>)
    \o opt(Truthy(md.pages), <<bibField(<<"p","a","g","e","s">>, text(md.pages))>>)
    \o opt(Truthy(md.doi), <<bibField(<<"d","o","i">>, text(md.doi))>>)
    \o opt(Truthy(md.isbn), <<bibField(<<"i","s","b","n">>, text(md.isbn))>>)
    \o opt(Truthy(md.includeAccessDate) /\ Truthy(md.url),
           <<bibField(<<"u","r","l","d","a","t","e">>, isoDate(clock))>>)

\* lines 221-251
toBibTeX(md, clock) ==
    LET keyFormat == OrElse(md.keyFormat, Str(DEFAULT_KEY_FORMAT))
        key == generateKeyFromFormat(md, keyFormat, clock)
        type == getBibTeXType(md.sourceType, md)
        authors == IF Truthy(md.author) THEN formatAuthors(md.author, <<"b","i","b","t","e","x">>)
                   ELSE Str(<<>>)
    IN  IF key = Throw \/ authors = Throw THEN Throw
        ELSE Str(<<"@">> \o type \o <<"{">> \o key.s \o <<",","\n">>
                     \o join(bibFields(md, authors.s, clock), <<",","\n">>) \o <<"\n","}">>)

\* lines 272-304
toAPA(md) ==
    LET formatted == formatAuthors(md.author, <<"a","p","a">>)
        authors == OrElse(formatted, Str(<<"U","n","k","n","o","w","n"," ","A","u","t","h","o","r">>))
        year == OrElse(md.year, Str(<<"n",".","d",".">>))
        title == OrElse(md.title, Str(<<"U","n","t","i","t","l","e","d">>))
        head == text(authors) \o <<" ","(">> \o text(year) \o <<")","."," ">> \o text(title) \o <<"."," ">>
    IN  IF formatted = Throw THEN Throw
        ELSE Str(trim(head \o
            (IF isWeb(md)
             THEN opt(Truthy(md.publisher), text(md.publisher) \o <<"."," ">>)
                  \o opt(Truthy(md.url), text(md.url))
             ELSE IF isArticle(md)
             THEN opt(Truthy(md.journal),
                      text(md.journal)
                      \o opt(Truthy(md.volume), <<","," ">> \o text(md.volume))
                      \o opt(Truthy(md.issue), <<"(">> \o text(md.issue) \o <<")">>)
                      \o opt(Truthy(md.pages), <<","," ">> \o text(md.pages))
                      \o <<"."," ">>)
                  \o (IF Truthy(md.doi) THEN <<"h","t","t","p","s",":","/","/","d","o","i",".","o","r","g","/">> \o text(md.doi)
                      ELSE opt(Truthy(md.url), text(md.url)))
             ELSE IF isBook(md)
             THEN opt(Truthy(md.publisher), text(md.publisher))
                  \o opt(Truthy(md.doi), <<"."," ","h","t","t","p","s",":","/","/","d","o","i",".","o","r","g","/">> \o text(md.doi))
             ELSE opt(Truthy(md.url), text(md.url)))))

\* lines 309-346
toMLA(md, clock) ==
    LET authors == formatAuthors(md.author, <<"m","l","a">>)
        title == OrElse(md.title, Str(<<"U","n","t","i","t","l","e","d">>))
        accessed == opt(Truthy(md.includeAccessDate),
                        <<" ","A","c","c","e","s","s","e","d"," ">> \o getAccessDate(<<"m","l","a">>, clock) \o <<".">>)
    IN  IF authors = Throw THEN Throw
        ELSE Str(trim(opt(Truthy(authors), text(authors) \o <<"."," ">>) \o
            (IF isWeb(md)
             THEN <<"\"">> \o text(title) \o <<".","\""," ">>
                  \o opt(Truthy(md.publisher), text(md.publisher) \o <<","," ">>)
                  \o text(formatDate(md, <<"m","l","a">>)) \o <<","," ">>
                  \o opt(Truthy(md.url), text(md.url) \o <<".">>)
                  \o accessed
             ELSE IF isArticle(md)
             THEN <<"\"">> \o text(title) \o <<".","\""," ">>
                  \o opt(Truthy(md.journal), text(md.journal) \o <<","," ">>)
                  \o opt(Truthy(md.volume), <<"v","o","l","."," ">> \o text(md.volume) \o <<","," ">>)
                  \o opt(Truthy(md.issue), <<"n","o","."," ">> \o text(md.issue) \o <<","," ">>)
                  \o text(formatDate(md, <<"m","l","a">>)) \o <<","," ">>
                  \o opt(Truthy(md.pages), <<"p","p","."," ">> \o text(md.pages) \o <<"."," ">>)
                  \o opt(Truthy(md.doi), <<"h","t","t","p","s",":","/","/","d","o","i",".","o","r","g","/">> \o text(md.doi))
             ELSE IF isBook(md)
             THEN text(title) \o <<"."," ">>
                  \o opt(Truthy(md.publisher), text(md.publisher) \o <<","," ">>)
                  \o text(OrElse(md.year, Str(<<"n",".","d",".">>))) \o <<".">>
             ELSE <<"\"">> \o text(title) \o <<".","\""," ">>
                  \o opt(Truthy(md.url), text(md.url) \o <<".">>)
                  \o accessed)))

\* lines 351-384
toChicago(md) ==
    LET authors == formatAuthors(md.author, <<"c","h","i","c","a","g","o">>)
        title == OrElse(md.title, Str(<<"U","n","t","i","t","l","e","d">>))
    IN  IF authors = Throw THEN Throw
        ELSE Str(trim(opt(Truthy(authors), text(authors) \o <<"."," ">>) \o
            (IF isWeb(md)
             THEN <<"\"">> \o text(title) \o <<".","\""," ">>
                  \o opt(Truthy(md.publisher), text(md.publisher) \o <<"."," ">>)
                  \o opt(Truthy(md.date) \/ Truthy(md.year),
                         text(formatDate(md, <<"c","h","i","c","a","g","o">>)) \o <<"."," ">>)
                  \o opt(Truthy(md.url), text(md.url) \o <<".">>)
             ELSE IF isArticle(md)
             THEN <<"\"">> \o text(title) \o <<".","\""," ">>
                  \o opt(Truthy(md.journal), text(md.journal) \o <<" ">>)
                  \o opt(Truthy(md.volume), text(md.volume))
                  \o opt(Truthy(md.issue), <<","," ","n","o","."," ">> \o text(md.issue))
                  \o <<" ","(">> \o text(OrElse(md.year, Str(<<"n",".","d",".">>))) \o <<")",":"," ">>
                  \o opt(Truthy(md.pages), text(md.pages) \o <<"."," ">>)
                  \o opt(Truthy(md.doi), <<"h","t","t","p","s",":","/","/","d","o","i",".","o","r","g","/">> \o text(md.doi))
             ELSE IF isBook(md)
             THEN text(title) \o <<"."," ">>
                  \o opt(Truthy(md.publisher), text(md.publisher) \o <<","," ">>)
                  \o text(OrElse(md.year, Str(<<"n",".","d",".">>))) \o <<".">>
             ELSE <<"\"">> \o text(title) \o <<".","\""," ">>
                  \o opt(Truthy(md.url), text(md.url) \o <<".">>))))

\* lines 389-421
toHarvard(md, clock) ==
    LET formatted == formatAuthors(md.author, <<"h","a","r","v","a","r","d">>)
        authors == OrElse(formatted, Str(<<"U","n","k","n","o","w","n"," ","A","u","t","h","o","r">>))
        year == OrElse(md.year, Str(<<"n",".","d",".">>))
        title == OrElse(md.title, Str(<<"U","n","t","i","t","l","e","d">>))
    IN  IF formatted = Throw THEN Throw
        ELSE Str(trim(text(authors) \o <<" ","(">> \o text(year) \o <<")"," ">> \o
            (IF isWeb(md)
             THEN <<"'">> \o text(title) \o <<"'",","," ">>
                  \o opt(Truthy(md.publisher), text(md.publisher) \o <<","," ">>)
                  \o <<"A","v","a","i","l","a","b","l","e"," ","a","t",":"," ">> \o text(OrElse(md.url, Str(<<"U","R","L">>)))
                  \o opt(Truthy(md.includeAccessDate),
                         <<" ","(","A","c","c","e","s","s","e","d",":"," ">> \o getAccessDate(<<"h","a","r","v","a","r","d">>, clock) \o <<")">>)
                  \o <<".">>
             ELSE IF isArticle(md)
             THEN <<"'">> \o text(title) \o <<"'",","," ">>
                  \o opt(Truthy(md.journal), text(md.journal) \o <<","," ">>)
                  \o opt(Truthy(md.volume), text(md.volume))
                  \o opt(Truthy(md.issue), <<"(">> \o text(md.issue) \o <<")">>)
                  \o opt(Truthy(md.pages), <<","," ","p","p","."," ">> \o text(md.pages))
                  \o <<".">>
                  \o opt(Truthy(md.doi), <<" ","d","o","i",":"," ">> \o text(md.doi) \o <<".">>)
             ELSE IF isBook(md)
             THEN text(title) \o <<"."," ">>
                  \o opt(Truthy(md.publisher), text(md.publisher) \o <<".">>)
             ELSE <<"'">> \o text(title) \o <<"'","."," ">>
                  \o opt(Truthy(md.url), <<"A","v","a","i","l","a","b","l","e"," ","a","t",":"," ">> \o text(md.url) \o <<".">>))))

\* lines 426-461
toIEEE(md, clock) ==
    LET authors == formatAuthorsIEEE(md.author)
        title == OrElse(md.title, Str(<<"U","n","t","i","t","l","e","d">>))
    IN  IF authors = Throw THEN Throw
        ELSE Str(trim(opt(Truthy(authors), text(authors) \o <<","," ">>) \o
            (IF isWeb(md)
             THEN <<"\"">> \o text(title) \o <<",","\""," ">>
                  \o opt(Truthy(md.publisher), text(md.publisher) \o <<"."," ">>)
                  \o opt(Truthy(md.url),
                         <<"[","O","n","l","i","n","e","]","."," ","A","v","a","i","l","a","b","l","e",":"," ">> \o text(md.url) \o <<".">>
                         \o opt(Truthy(md.includeAccessDate),
                                <<" ","[","A","c","c","e","s","s","e","d",":"," ">> \o getAccessDate(<<"i","e","e","e">>, clock) \o <<"]",".">>))
             ELSE IF isArticle(md)
             THEN <<"\"">> \o text(title) \o <<",","\""," ">>
                  \o opt(Truthy(md.journal), text(md.journal) \o <<","," ">>)
                  \o opt(Truthy(md.volume), <<"v","o","l","."," ">> \o text(md.volume) \o <<","," ">>)
                  \o opt(Truthy(md.issue), <<"n","o","."," ">> \o text(md.issue) \o <<","," ">>)
                  \o opt(Truthy(md.pages), <<"p","p","."," ">> \o text(md.pages) \o <<","," ">>)
                  \o text(OrElse(md.year, Str(<<"n",".","d",".">>))) \o <<".">>
                  \o opt(Truthy(md.doi), <<" ","d","o","i",":"," ">> \o text(md.doi) \o <<".">>)
             ELSE IF isBook(md)
             THEN text(title) \o <<"."," ">>
                  \o opt(Truthy(md.publisher), text(md.publisher) \o <<","," ">>)
                  \o text(OrElse(md.year, Str(<<"n",".","d",".">>))) \o <<".">>
             ELSE <<"\"">> \o text(title) \o <<".","\""," ">>
                  \o opt(Truthy(md.url),
                         <<"[","O","n","l","i","n","e","]","."," ","A","v","a","i","l","a","b","l","e",":"," ">> \o text(md.url) \o <<".">>))))

\* Mutant: the default case renders APA
formatDefaultAPA(md, style, clock) ==
    CASE style = Str(<<"b","i","b","t","e","x">>) -> toBibTeX(md, clock)
      [] style = Str(<<"a","p","a">>) -> toAPA(md)
      [] style = Str(<<"m","l","a">>) -> toMLA(md, clock)
      [] style = Str(<<"c","h","i","c","a","g","o">>) -> toChicago(md)
      [] style = Str(<<"h","a","r","v","a","r","d">>) -> toHarvard(md, clock)
      [] style = Str(<<"i","e","e","e">>) -> toIEEE(md, clock)
      [] OTHER -> toAPA(md)

\* lines 485-502
format(md, style, clock) ==
    CASE style = Str(<<"b","i","b","t","e","x">>) -> toBibTeX(md, clock)
      [] style = Str(<<"a","p","a">>) -> toAPA(md)
      [] style = Str(<<"m","l","a">>) -> toMLA(md, clock)
      [] style = Str(<<"c","h","i","c","a","g","o">>) -> toChicago(md)
      [] style = Str(<<"h","a","r","v","a","r","d">>) -> toHarvard(md, clock)
      [] style = Str(<<"i","e","e","e">>) -> toIEEE(md, clock)
      [] OTHER -> toBibTeX(md, clock)

----------------------------------------------------------------------------
(* The records and templates the callers pass.                             *)

Fields == {"title", "author", "date", "year", "url", "publisher", "doi", "isbn",
           "journal", "volume", "issue", "pages", "sourceType",
           "includeAccessDate", "keyFormat"}

\* a record with every field absent
BlankRecord == [f \in Fields |-> Undefined]

\* a record whose text fields are all absent or strings
TextFields == Fields \ {"includeAccessDate"}
AbsentOrString(md) == \A f \in TextFields : md[f].t \in {"undefined", "string"}

KeyAuthors ==
    {Undefined, Str(<<>>),
     Str(<<"S","m","i","t","h",","," ","J","o","h","n">>), Str(<<"A","l","i","c","e"," ","J","o","n","e","s",";"," ","B","o","b"," ","L","e","e">>), Str(<<"O","'","N","e","i","l",","," ","T","i","m">>),
     Str(<<"A","l"," ","Y","e","a","r">>), Str(<<"1","2","3">>)}

KeyTitles ==
    {Undefined,
     Str(<<"M","a","c","h","i","n","e"," ","L","e","a","r","n","i","n","g"," ","F","u","n","d","a","m","e","n","t","a","l","s">>), Str(<<"A"," ","S","t","u","d","y"," ","o","f"," ","A","l","g","o","r","i","t","h","m","s">>),
     Str(<<"3","D"," ","y","e","a","r","-","e","n","d"," ","R","e","v","i","e","w">>), Str(<<"4","2"," ","!">>)}

KeyYears == {Undefined, Str(<<"2","0","2","4">>), Str(<<"1","9","9","9">>), Str(<<"2","0","2","4","B">>)}

\* records a caller may not pass: a number where a string belongs
InvalidRecords ==
    {[BlankRecord EXCEPT !.author = Num(7)],
     [BlankRecord EXCEPT !.title = Num(42)],
     [BlankRecord EXCEPT !.year = Num(2024)]}

\* the record of the README's example
ExampleAuthor == Str(<<"S","m","i","t","h",","," ","J","o","h","n">>)
ExampleTitle == Str(<<"M","a","c","h","i","n","e"," ","L","e","a","r","n","i","n","g"," ","F","u","n","d","a","m","e","n","t","a","l","s">>)

\* every author and every title of the lists, each with every year
KeyRecords ==
    {[BlankRecord EXCEPT !.author = a, !.title = ExampleTitle, !.year = y] :
        a \in KeyAuthors, y \in KeyYears}
    \cup {[BlankRecord EXCEPT !.author = ExampleAuthor, !.title = ti, !.year = y] :
        ti \in KeyTitles, y \in KeyYears}
    \cup {BlankRecord}
    \cup InvalidRecords

\* the token shorttitle(n,m)
shortTitleToken(n, m) == <<"s","h","o","r","t","t","i","t","l","e","(">> \o toString(n) \o <<",">> \o toString(m) \o <<")">>

KeyFormats ==
    {DEFAULT_KEY_FORMAT,
     <<"a","u","t","h",".","l","o","w","e","r">>, <<"a","u","t","h",".","u","p","p","e","r">>, <<"A","u","t","h">>, <<"y","e","a","r">>, <<"s","h","o","r","t","y","e","a","r">>, <<"t","i","t","l","e",".","l","o","w","e","r">>,
     <<"s","h","o","r","t","t","i","t","l","e","(","3",",","3",")">>, <<"s","h","o","r","t","t","i","t","l","e","(","3",","," ","3",")">>,
     <<"A","u","t","h","+","y","e","a","r">>, <<"a","u","t","h",".","l","o","w","e","r"," ","+"," ","s","h","o","r","t","y","e","a","r">>, <<"a","u","t","h",".","l","o","w","e","r","-","y","e","a","r">>,
     <<>>, <<"+">>, <<" ","+"," ","+"," ">>, <<"A","u","t","h"," ","+","+"," ","y","e","a","r">>}
    \cup {shortTitleToken(n, MaxChars) : n \in 1..MaxWords}
    \cup {shortTitleToken(MaxWords, m) : m \in 1..MaxChars}

\* the session starts two days before the new year
FirstDay == [year |-> 2025, month |-> 12, day |-> 30]

RECURSIVE daysLater(_, _)
daysLater(d, n) == IF n = 0 THEN d ELSE nextDay(daysLater(d, n - 1))

----------------------------------------------------------------------------
(* The key generator as a state machine: a caller holds a record, calls    *)
(* generateKey or generateKeyFromFormat any number of times, and the clock *)
(* advances between calls.  call is the last call: its operation, its      *)
(* argument, the date it ran on and what it returned.                      *)

\* what the popup reads of the page in the active tab: which fields
\* extractPageMetadata finds there, and whether the url holds a DOI or an
\* arXiv identifier
Pages == [author : BOOLEAN, title : BOOLEAN, date : BOOLEAN, doi : BOOLEAN,
          url : {"plain", "doi", "arxiv"}]

PlainPage == [author |-> TRUE, title |-> TRUE, date |-> TRUE, doi |-> FALSE, url |-> "plain"]

\* no Zotero API key and no user id
NoCredentials == [apiKey |-> FALSE, userId |-> FALSE]

\* the popup before DOMContentLoaded: the page of the active tab, whether the
\* title field is filled, the credentials in the settings inputs and in
\* chrome.storage.local, whether the Zotero save modal is shown, the
\* requests sent to remote servers so far, the text of the key format input,
\* currentKeyFormat (line 74) and the keyFormat of chrome.storage.local
ClosedPopup(page) ==
    [loaded |-> FALSE, page |-> page, title |-> FALSE, inputs |-> NoCredentials,
     stored |-> NoCredentials, saveModal |-> FALSE, requests |-> {},
     keyFormatInput |-> Str(<<>>), currentKeyFormat |-> Str(DEFAULT_KEY_FORMAT),
     storedKeyFormat |-> Undefined]

NoCall == [op |-> "none", arg |-> Undefined, at |-> FirstDay, ret |-> Undefined]

Init ==
    /\ metadata \in KeyRecords
    /\ now = FirstDay
    /\ call = NoCall
    /\ popup = ClosedPopup(PlainPage)

GenerateKey ==
    /\ call' = [op |-> "generateKey", arg |-> Str(DEFAULT_KEY_FORMAT),
                at |-> now, ret |-> generateKey(metadata, now)]
    /\ UNCHANGED <<metadata, now, popup>>

GenerateKeyFromFormat ==
    \E f \in KeyFormats :
        /\ call' = [op |-> "generateKeyFromFormat", arg |-> Str(f), at |-> now,
                    ret |-> generateKeyFromFormat(metadata, Str(f), now)]
        /\ UNCHANGED <<metadata, now, popup>>

Tick ==
    /\ now # daysLater(FirstDay, MaxTicks)
    /\ now' = nextDay(now)
    /\ UNCHANGED <<metadata, call, popup>>

Next == GenerateKey \/ GenerateKeyFromFormat \/ Tick

Spec == Init /\ [][Next]_vars

----------------------------------------------------------------------------
(* The style formatter as a state machine: a caller holds a record and     *)
(* calls format with a style any number of times.  format reads the clock  *)
(* for the access date only; the date of the session is chosen at its      *)
(* start.                                                                  *)

Styles == {<<"b","i","b","t","e","x">>, <<"a","p","a">>, <<"m","l","a">>, <<"c","h","i","c","a","g","o">>, <<"h","a","r","v","a","r","d">>, <<"i","e","e","e">>}

\* the styles callers pass: the six, and two the formatter does not know
StyleArgs == Styles \cup {<<"v","a","n","c","o","u","v","e","r">>, <<"A","P","A">>}

SourceTypes == {Str(<<"w","e","b","p","a","g","e">>), Str(<<"a","r","t","i","c","l","e">>), Str(<<"j","o","u","r","n","a","l">>), Str(<<"b","o","o","k">>),
                Str(<<"n","e","w","s">>), Str(<<"o","t","h","e","r">>), Str(<<"c","o","n","s","t","r","u","c","t","o","r">>), Undefined}

\* n authors, separated by semicolons
manyAuthors(n) == join([i \in 1..n |-> IF i % 2 = 1 THEN <<"A","n","n"," ","W","u">> ELSE <<"N","g",","," ","B","o">>], <<";"," ">>)

FormatAuthors ==
    {Str(<<"A","l","i","c","e"," ","J","o","n","e","s",";"," ",";"," ","B","o","b"," ","L","e","e">>), Str(<<"L","i",","," ","W","e","i",";"," ","B","o","b"," ","L","e","e",";"," ","C","a","r","o","l"," ","K","i","m">>),
     Str(manyAuthors(ApaMaxAuthors)), Str(manyAuthors(ApaMaxAuthors + 1)),
     Undefined, Str(<<>>), Str(<<";">>), Str(<<" ","a","n","d"," ">>),
     Str(<<"S","m","i","t","h",","," ","J","o","h","n">>), Str(<<"P","l","a","t","o">>), Str(<<"A","l","i","c","e"," ","J","o","n","e","s",";"," ","B","o","b"," ","L","e","e">>),
     Str(<<"J","a","n","e"," ","D","o","e"," ","a","n","d"," ","L","i",","," ","W","e","i">>), Str(<<"A","l","i","c","e"," ","J","o","n","e","s",";"," ","B","o","b"," ","L","e","e",";"," ","C","a","r","o","l"," ","K","i","m">>),
     Str(<<"A","l","i","c","e"," ","J","o","n","e","s",";"," ","B","o","b"," ","L","e","e",";"," ","C","a","r","o","l"," ","K","i","m",";"," ","D","a","n"," ","W","u">>)}

\* the fields of a full record, apart from author, sourceType, includeAccessDate
FullRecord ==
    [BlankRecord EXCEPT
        !.title = ExampleTitle,
        !.author = ExampleAuthor,
        !.date = Str(<<"2","0","2","4","-","0","1","-","1","5">>),
        !.year = Str(<<"2","0","2","4">>),
        !.url = Str(<<"h","t","t","p","s",":","/","/","e","x",".","o","r","g","/","a">>),
        !.publisher = Str(<<"A","C","M">>),
        !.doi = Str(<<"1","0",".","1","/","x">>),
        !.isbn = Str(<<"9","7","8","-","3">>),
        !.journal = Str(<<"N","a","t","u","r","e">>),
        !.volume = Str(<<"1","2">>),
        !.issue = Str(<<"3">>),
        !.pages = Str(<<"1","-","9">>),
        !.sourceType = Str(<<"w","e","b","p","a","g","e">>),
        !.includeAccessDate = Bool(TRUE),
        !.keyFormat = Str(DEFAULT_KEY_FORMAT)]

\* the fields that a record may lack one by one
OptionalFields == Fields \ {"sourceType", "includeAccessDate"}

FormatRecords ==
    \* every author, on a web page and in an article
    {[FullRecord EXCEPT !.author = a, !.sourceType = st] :
        a \in FormatAuthors, st \in {Str(<<"w","e","b","p","a","g","e">>), Str(<<"a","r","t","i","c","l","e">>)}}
    \* every source type, with and without the access date, the url, the rest
    \cup {[f \in Fields |->
              CASE f = "sourceType" -> st
                [] f = "includeAccessDate" -> acc
                [] f \in {"url", "author", "title"} -> IF url THEN FullRecord[f] ELSE Undefined
                [] OTHER -> IF rest THEN FullRecord[f] ELSE Undefined] :
            st \in SourceTypes, acc \in {Bool(TRUE), Bool(FALSE)},
            url \in BOOLEAN, rest \in BOOLEAN}
    \cup {BlankRecord}
    \* one field absent or empty
    \cup {[FullRecord EXCEPT ![f] = v, !.sourceType = st] :
            f \in OptionalFields, v \in {Undefined, Str(<<>>)},
            st \in {Str(<<"w","e","b","p","a","g","e">>), Str(<<"a","r","t","i","c","l","e">>), Str(<<"b","o","o","k">>)}}
    \* a date that is no date, with and without a year
    \cup {[FullRecord EXCEPT !.date = Str(<<"s","o","o","n">>), !.year = y, !.sourceType = st] :
            y \in {Undefined, Str(<<"2","0","2","4">>)}, st \in {Str(<<"w","e","b","p","a","g","e">>), Str(<<"a","r","t","i","c","l","e">>)}}
    \* a number where a string belongs
    \cup {[FullRecord EXCEPT !.author = Num(7)], [FullRecord EXCEPT !.title = Num(42)],
          [FullRecord EXCEPT !.year = Num(2024)]}

InitFormat ==
    /\ metadata \in FormatRecords
    /\ now \in {FirstDay, daysLater(FirstDay, MaxTicks)}
    /\ call = NoCall
    /\ popup = ClosedPopup(PlainPage)

\* Mutant: toBibTeX stores the key format it used in the record
FormatStoringKeyFormat ==
    \E style \in StyleArgs :
        /\ call' = [op |-> "format", arg |-> Str(style), at |-> now,
                    ret |-> format(metadata, Str(style), now)]
        /\ metadata' = [metadata EXCEPT !.keyFormat = OrElse(@, Str(DEFAULT_KEY_FORMAT))]
        /\ UNCHANGED <<now, popup>>

Format ==
    \E style \in StyleArgs :
        /\ call' = [op |-> "format", arg |-> Str(style), at |-> now,
                    ret |-> format(metadata, Str(style), now)]
        /\ UNCHANGED <<metadata, now, popup>>

\* formatAuthors called on the record's author field
CallFormatAuthors ==
    \E style \in Styles :
        /\ call' = [op |-> "formatAuthors", arg |-> Str(style), at |-> now,
                    ret |-> formatAuthors(metadata.author, style)]
        /\ UNCHANGED <<metadata, now, popup>>

\* formatDate called on the record
CallFormatDate ==
    \E style \in StyleArgs :
        /\ call' = [op |-> "formatDate", arg |-> Str(style), at |-> now,
                    ret |-> formatDate(metadata, style)]
        /\ UNCHANGED <<metadata, now, popup>>

NextFormat == Format \/ CallFormatAuthors \/ CallFormatDate

SpecFormat == InitFormat /\ [][NextFormat]_vars

----------------------------------------------------------------------------
(* The popup as a state machine: it opens on a page, and the user clicks    *)
(* Refresh, types Zotero credentials, tests and saves the settings, and     *)
(* saves the citation to Zotero.  A request is the server it goes to and    *)
(* what it carries.                                                         *)

\* lines 1034-1041
isMetadataIncomplete(page) ==
    LET missingAuthor == ~page.author
        missingTitle == ~page.title
        missingDate == ~page.date
    IN  missingAuthor \/ (missingTitle /\ page.doi) \/ (missingAuthor /\ missingDate)

\* lines 1047-1077: the request enhanceMetadataWithSemanticScholar sends
enhanceRequests(page) ==
    IF page.doi \/ page.url = "doi"
    THEN {[to |-> "api.semanticscholar.org", carries |-> "DOI of the page"]}
    ELSE IF page.url = "arxiv"
    THEN {[to |-> "api.semanticscholar.org", carries |-> "arXiv id of the page"]}
    ELSE {}

\* lines 192-222: the request checkForPeerReviewedVersion sends
peerReviewRequests(page) ==
    IF page.url = "arxiv"
    THEN {[to |-> "api.semanticscholar.org", carries |-> "arXiv id of the page"]}
    ELSE {}

\* lines 1136-1191: the popup p after fetchMetadata; scriptOk: executeScript
\* returned, found: a title came from the lookup (or from the tab, when
\* executeScript failed)
fetchMetadata(p, scriptOk, found) ==
    LET lookup == IF isMetadataIncomplete(p.page) THEN enhanceRequests(p.page) ELSE {}
    IN  [p EXCEPT
            !.loaded = TRUE,
            !.title = IF scriptOk THEN p.page.title \/ (found /\ lookup # {}) ELSE found,
            !.requests = IF scriptOk THEN @ \cup lookup \cup peerReviewRequests(p.page)
                         ELSE @]

\* lines 1236-1274: the key format and the credentials read from storage
loadPreferences(p) ==
    [p EXCEPT
        !.inputs = p.stored,
        !.currentKeyFormat = IF Truthy(p.storedKeyFormat) THEN p.storedKeyFormat ELSE @,
        !.keyFormatInput = OrElse(p.storedKeyFormat, Str(DEFAULT_KEY_FORMAT))]

\* lines 1490-1491: loadPreferences, then fetchMetadata
DOMContentLoaded ==
    /\ ~popup.loaded
    /\ \E scriptOk \in BOOLEAN, found \in BOOLEAN :
           popup' = fetchMetadata(loadPreferences(popup), scriptOk, found)
    /\ UNCHANGED <<metadata, now, call>>

\* lines 1352-1358
Refresh ==
    /\ popup.loaded
    /\ \E scriptOk \in BOOLEAN, found \in BOOLEAN :
           popup' = fetchMetadata(popup, scriptOk, found)
    /\ UNCHANGED <<metadata, now, call>>

\* the user types into the API key and user id inputs of the settings
TypeCredentials ==
    /\ popup.loaded
    /\ \E a \in BOOLEAN, u \in BOOLEAN :
           popup' = [popup EXCEPT !.inputs = [apiKey |-> a, userId |-> u]]
    /\ UNCHANGED <<metadata, now, call>>

\* the ways verifyZoteroCredentials ends
VerifyOutcomes == {"key refused", "library refused", "valid"}

\* lines 935-1022: the requests verifyZoteroCredentials sends
verifyRequests(inputs, outcome) ==
    IF ~(inputs.apiKey /\ inputs.userId) THEN {}
    ELSE {[to |-> "api.zotero.org", carries |-> "API key"]}
         \cup (IF outcome = "key refused" THEN {}
               ELSE {[to |-> "api.zotero.org", carries |-> "API key and user id"]})

\* lines 1427-1431
TestZotero ==
    /\ popup.loaded
    /\ \E outcome \in VerifyOutcomes :
           popup' = [popup EXCEPT !.requests = @ \cup verifyRequests(popup.inputs, outcome)]
    /\ UNCHANGED <<metadata, now, call>>

\* the texts typed into the key format input
KeyFormatInputs == {<<>>, DEFAULT_KEY_FORMAT, <<"A","u","t","h","+","y","e","a","r">>}

\* the user edits the key format input of the settings (line 1423)
TypeKeyFormat ==
    /\ popup.loaded
    /\ \E k \in KeyFormatInputs : popup' = [popup EXCEPT !.keyFormatInput = Str(k)]
    /\ UNCHANGED <<metadata, now, call>>

\* lines 1434-1469: the click on Save when verifyZoteroCredentials ends with
\* outcome; verification runs only when both credentials are given
SaveSettingsWith(outcome) ==
    LET refused == popup.inputs.apiKey /\ popup.inputs.userId /\ outcome # "valid"
        keyFormat == OrElse(popup.keyFormatInput, Str(DEFAULT_KEY_FORMAT))
    IN  /\ popup' = [popup EXCEPT
               !.currentKeyFormat = keyFormat,
               !.requests = @ \cup verifyRequests(popup.inputs, outcome),
               !.stored = IF refused THEN @ ELSE popup.inputs,
               !.storedKeyFormat = IF refused THEN @ ELSE keyFormat]
        /\ UNCHANGED <<metadata, now, call>>

\* lines 1434-1469
SaveSettings ==
    /\ popup.loaded
    /\ \E outcome \in VerifyOutcomes : SaveSettingsWith(outcome)

\* lines 1471-1480
ResetSettings ==
    /\ popup.loaded
    /\ popup' = [popup EXCEPT !.keyFormatInput = Str(DEFAULT_KEY_FORMAT),
                              !.currentKeyFormat = Str(DEFAULT_KEY_FORMAT)]
    /\ UNCHANGED <<metadata, now, call>>

\* lines 1279-1292 and 1309-1329: a change of the style, the source type, the
\* access-date box or the details toggle saves the preferences
SavePreferences ==
    /\ popup.loaded
    /\ popup' = [popup EXCEPT !.storedKeyFormat = popup.currentKeyFormat]
    /\ UNCHANGED <<metadata, now, call>>

\* lines 776-810
ShowZoteroSaveModal ==
    /\ popup.loaded
    /\ popup' = IF popup.title /\ popup.stored.apiKey /\ popup.stored.userId
                THEN [popup EXCEPT
                         !.saveModal = TRUE,
                         !.requests = @ \cup {[to |-> "api.zotero.org",
                                               carries |-> "API key and user id"]}]
                ELSE popup
    /\ UNCHANGED <<metadata, now, call>>

\* lines 815-933: the POST of the citation; the modal closes when it succeeds
ConfirmZoteroSave ==
    /\ popup.saveModal
    /\ \E saved \in BOOLEAN :
           popup' = [popup EXCEPT
               !.saveModal = ~saved,
               !.requests = @ \cup {[to |-> "api.zotero.org",
                                     carries |-> "metadata of the page"]}]
    /\ UNCHANGED <<metadata, now, call>>

InitPopup ==
    /\ metadata = BlankRecord
    /\ now = FirstDay
    /\ call = NoCall
    /\ popup \in {ClosedPopup(page) : page \in Pages}

NextPopup ==
    \/ DOMContentLoaded \/ Refresh \/ TypeCredentials \/ TestZotero \/ SaveSettings
    \/ ShowZoteroSaveModal \/ ConfirmZoteroSave

SpecPopup == InitPopup /\ [][NextPopup]_vars

\* the settings of the popup, on a plain page: storage holds no key format or
\* one saved by an earlier session
InitSettings ==
    /\ metadata = BlankRecord
    /\ now = FirstDay
    /\ call = NoCall
    /\ popup \in {[ClosedPopup(PlainPage) EXCEPT !.storedKeyFormat = k] :
                      k \in {Undefined, Str(<<"A","u","t","h","+","y","e","a","r">>)}}

NextSettings ==
    \/ DOMContentLoaded \/ TypeCredentials \/ TypeKeyFormat \/ SaveSettings
    \/ ResetSettings \/ SavePreferences

SpecSettings == InitSettings /\ [][NextSettings]_vars

----------------------------------------------------------------------------
(* Properties of the key generator, checked under Spec.                    *)

KeyCall(c) == c.op \in {"generateKey", "generateKeyFromFormat"}

ExampleRecord ==
    [BlankRecord EXCEPT !.author = ExampleAuthor, !.title = ExampleTitle,
                        !.year = Str(<<"2","0","2","4">>)]

withDefaults(md, clock) ==
    [md EXCEPT !.author = IF Truthy(@) THEN @ ELSE Str(<<"u","n","k","n","o","w","n">>),
               !.title = IF Truthy(@) THEN @ ELSE Str(<<"u","n","t","i","t","l","e","d">>),
               !.year = IF Truthy(@) THEN @ ELSE Str(toString(clock.year))]

\* C4: for a record whose fields are absent or strings, and any format string,
\* generateKeyFromFormat returns a string (it does not throw), and that
\* string is the key of the record with "unknown", "untitled" and the current
\* calendar year in place of an absent author, title and year.
C4_NeverThrowsWithDefaults ==
    (KeyCall(call) /\ AbsentOrString(metadata))
        => /\ IsString(call.ret)
           /\ call.ret = generateKeyFromFormat(withDefaults(metadata, call.at),
                                               call.arg, call.at)

\* C4, its case: the key of the record with no field at all was generated.
C4_Witness ==
    /\ KeyCall(call)
    /\ metadata = BlankRecord
    /\ call.arg = Str(DEFAULT_KEY_FORMAT)
    /\ call.ret = Str(<<"u","n","k","n","o","w","n","_","u","n","t","_","2","0","2","5">>)

\* C5 as stated: two calls with the same (metadata, format) return the same
\* key, whatever happens between them.
C5_Original ==
    [][(KeyCall(call) /\ KeyCall(call') /\ call'.arg = call.arg /\ metadata' = metadata)
          => call'.ret = call.ret]_vars

\* C5 as amended: two calls with the same (metadata, format) return the same
\* key when the record has a year or both calls run in the same calendar year.
C5_DeterministicWithinYear ==
    [][(/\ KeyCall(call) /\ KeyCall(call')
        /\ call'.arg = call.arg /\ metadata' = metadata
        /\ (Truthy(metadata.year) \/ call'.at.year = call.at.year))
          => call'.ret = call.ret]_vars

\* C5, its case: a key with the year taken from the clock was generated
\* after the clock had advanced within the year.
C5_Witness ==
    /\ KeyCall(call)
    /\ ~Truthy(metadata.year)
    /\ call.at = nextDay(FirstDay)
    /\ call.arg = Str(<<"y","e","a","r">>)
    /\ call.ret = Str(<<"2","0","2","5">>)

\* the tokens that produce lower-case text, and all the tokens of the table
LowerTokens == {<<"a","u","t","h",".","l","o","w","e","r">>, <<"y","e","a","r">>, <<"s","h","o","r","t","y","e","a","r">>, <<"t","i","t","l","e",".","l","o","w","e","r">>}
AllTokens == LowerTokens \cup {<<"a","u","t","h",".","u","p","p","e","r">>, <<"A","u","t","h">>}

isToken(p, tokens) == p \in tokens \/ (p # <<>> /\ matchShortTitle(p).len = Len(p))

\* a format of zero or more of the tokens, joined by +
tokenFormat(f, tokens) ==
    \/ f = <<>>
    \/ \A i \in 1..Len(split(f, "+")) : isToken(trim(split(f, "+")[i]), tokens)

noUpperCase(s) == Range(s) \cap UpperSet = {}

\* C6 as stated: for every record and every format of recognized tokens joined
\* by +, the key contains no upper-case letter.
C6_Original ==
    (KeyCall(call) /\ IsString(call.ret) /\ tokenFormat(call.arg.s, AllTokens))
        => noUpperCase(call.ret.s)

\* C6 as amended: for every format of the tokens auth.lower, year, shortyear,
\* title.lower and shorttitle(n,m) joined by +, and every record whose year
\* has no upper-case letter, the key contains no upper-case letter.
C6_LowercaseKey ==
    (/\ KeyCall(call) /\ IsString(call.ret)
     /\ tokenFormat(call.arg.s, LowerTokens)
     /\ (IsString(metadata.year) => noUpperCase(metadata.year.s)))
        => noUpperCase(call.ret.s)

\* C6, its case: auth.lower was expanded for an author with capitals.
C6_Witness ==
    /\ KeyCall(call)
    /\ metadata.author = Str(<<"O","'","N","e","i","l",","," ","T","i","m">>)
    /\ call.arg = Str(<<"a","u","t","h",".","l","o","w","e","r"," ","+"," ","s","h","o","r","t","y","e","a","r">>)
    /\ IsString(call.ret)

\* C7: for every record and every format string the key consists only of
\* ASCII letters, digits and underscores.
C7_IdentifierSafe ==
    (KeyCall(call) /\ IsString(call.ret))
        => Range(call.ret.s) \subseteq (LowerSet \cup UpperSet \cup DigitSet \cup {"_"})

\* C8: for the format shortyear and the year "2024" the key is 24.
C8_ShortYear ==
    (KeyCall(call) /\ call.arg = Str(<<"s","h","o","r","t","y","e","a","r">>) /\ metadata.year = Str(<<"2","0","2","4">>))
        => call.ret = Str(<<"2","4">>)

\* C9 as stated: shorttitle(3,3) on "A Study of Algorithms" yields stu_alg.
C9_Original ==
    (/\ KeyCall(call) /\ call.arg = Str(<<"s","h","o","r","t","t","i","t","l","e","(","3",",","3",")">>)
     /\ metadata.title = Str(<<"A"," ","S","t","u","d","y"," ","o","f"," ","A","l","g","o","r","i","t","h","m","s">>))
        => call.ret = Str(<<"s","t","u","_","a","l","g">>)

\* C9 as amended: shorttitle(3,3) on "A Study of Algorithms" yields a_stu_of:
\* the first three words, each cut to three letters; no word is dropped.
C9_ShortTitleExample ==
    (/\ KeyCall(call) /\ call.arg = Str(<<"s","h","o","r","t","t","i","t","l","e","(","3",",","3",")">>)
     /\ metadata.title = Str(<<"A"," ","S","t","u","d","y"," ","o","f"," ","A","l","g","o","r","i","t","h","m","s">>))
        => call.ret = Str(<<"a","_","s","t","u","_","o","f">>)

\* C9, its case: shorttitle(3,3) was expanded for that title.
C9_Witness ==
    /\ KeyCall(call) /\ call.arg = Str(<<"s","h","o","r","t","t","i","t","l","e","(","3",",","3",")">>)
    /\ metadata.title = Str(<<"A"," ","S","t","u","d","y"," ","o","f"," ","A","l","g","o","r","i","t","h","m","s">>)
    /\ IsString(call.ret)

\* the key before the fallback of line 70
keyBeforeFallback(md, keyFormat, clock) ==
    cleanSeparators(substituteTokens(keyFormat.s, cleanLastName(authorOrDefault(md).s),
                                     yearOrDefault(md, clock).s, titleOrDefault(md).s))

\* C10: generateKeyFromFormat never returns the empty string; when the result
\* of the substitution and the clean-up is empty it returns "citation".
C10_NeverEmpty ==
    (KeyCall(call) /\ IsString(call.ret))
        => /\ call.ret.s # <<>>
           /\ keyBeforeFallback(metadata, call.arg, call.at) = <<>>
                 => call.ret = Str(<<"c","i","t","a","t","i","o","n">>)

\* C10, its case: a token resolved to nothing and the fallback was returned.
C10_Witness ==
    /\ KeyCall(call)
    /\ metadata.author = Str(<<"1","2","3">>)
    /\ call.arg = Str(<<"a","u","t","h",".","l","o","w","e","r">>)
    /\ call.ret = Str(<<"c","i","t","a","t","i","o","n">>)

\* C21: for the format auth.lower and every (non-empty) author string, the
\* key is the first author's last name reduced to its letters and lowercased,
\* or "citation" when that is empty: no later token rule rewrites it.
C21_AuthLowerKey ==
    (/\ call.op = "generateKeyFromFormat" /\ call.arg = Str(<<"a","u","t","h",".","l","o","w","e","r">>)
     /\ IsString(metadata.author) /\ metadata.author.s # <<>>
     /\ IsString(call.ret))
        => call.ret.s = keyOrFallback(toLowerCase(cleanLastName(metadata.author.s)))

----------------------------------------------------------------------------
(* Properties of the style formatter, checked under SpecFormat.            *)

FormatCall(c) == c.op = "format" /\ c.arg.s \in Styles

\* s contains the text sub
containsText(s, sub) ==
    \E i \in 1..(Len(s) - Len(sub) + 1) : SubSeq(s, i, i + Len(sub) - 1) = sub

\* C2: for every record whose text fields are absent or strings, and each of
\* the six styles, format returns a string and raises no exception.
C2_FormatNeverThrows ==
    (FormatCall(call) /\ AbsentOrString(metadata)) => IsString(call.ret)

\* no string field of the record contains "undefined" or "NaN" itself
fieldsFree(md) ==
    \A f \in TextFields :
        IsString(md[f]) =>
            /\ ~containsText(md[f].s, <<"u","n","d","e","f","i","n","e","d">>)
            /\ ~containsText(md[f].s, <<"N","a","N">>)

\* C3: for every record whose text fields are absent or strings free of
\* "undefined" and "NaN", and each of the six styles, format returns a
\* non-empty string that contains neither "undefined" nor "NaN".
C3_NoUndefinedNoNaN ==
    (FormatCall(call) /\ AbsentOrString(metadata) /\ fieldsFree(metadata))
        => /\ IsString(call.ret)
           /\ call.ret.s # <<>>
           /\ ~containsText(call.ret.s, <<"u","n","d","e","f","i","n","e","d">>)
           /\ ~containsText(call.ret.s, <<"N","a","N">>)

\* C11: for every record and every style outside the six, format returns what
\* format(metadata, 'bibtex') returns at the same moment (the same string, or
\* the same exception).
C11_UnknownStyleIsBibTeX ==
    (call.op = "format" /\ call.arg.s \notin Styles)
        => call.ret = format(metadata, Str(<<"b","i","b","t","e","x">>), call.at)

C11_Witness ==
    /\ call.op = "format"
    /\ call.arg = Str(<<"A","P","A">>)
    /\ metadata = FullRecord
    /\ IsString(call.ret)
    /\ startsWith(call.ret.s, <<"@","o","n","l","i","n","e","{","s","m","i","t","h","_","m","a","c","_","l","e","a","_","f","u","n","_","2","0","2","4",",">>)

\* the entry type the mapping gives: misc for an article or journal without a
\* journal, else webpage -> online, article -> article, journal -> article,
\* book -> book, news -> article, and misc for anything else
mappedType(md) ==
    LET st == md.sourceType
    IN  IF st \in {Str(<<"a","r","t","i","c","l","e">>), Str(<<"j","o","u","r","n","a","l">>)} /\ ~Truthy(md.journal) THEN <<"m","i","s","c">>
        ELSE CASE st = Str(<<"w","e","b","p","a","g","e">>) -> <<"o","n","l","i","n","e">>
               [] st \in {Str(<<"a","r","t","i","c","l","e">>), Str(<<"j","o","u","r","n","a","l">>), Str(<<"n","e","w","s">>)} -> <<"a","r","t","i","c","l","e">>
               [] st = Str(<<"b","o","o","k">>) -> <<"b","o","o","k">>
               [] OTHER -> <<"m","i","s","c">>

BibTeXCall(c) == c.op = "format" /\ c.arg = Str(<<"b","i","b","t","e","x">>) /\ IsString(c.ret)

\* C12: the BibTeX entry opens with @<type>{ where the type is misc for an
\* article or journal with an empty journal field, otherwise follows the
\* mapping (news stays article without a journal), and is misc for any other
\* sourceType.
C12_EntryType ==
    (BibTeXCall(call) /\ AbsentOrString(metadata))
        => startsWith(call.ret.s, <<"@">> \o mappedType(metadata) \o <<"{">>)

\* the BibTeX field names in the fixed order, each with the record field it
\* is taken from
BibTeXOrder ==
    <<[name |-> <<"a","u","t","h","o","r">>, from |-> "author"], [name |-> <<"t","i","t","l","e">>, from |-> "title"],
      [name |-> <<"y","e","a","r">>, from |-> "year"], [name |-> <<"u","r","l">>, from |-> "url"],
      [name |-> <<"p","u","b","l","i","s","h","e","r">>, from |-> "publisher"],
      [name |-> <<"j","o","u","r","n","a","l">>, from |-> "journal"], [name |-> <<"v","o","l","u","m","e">>, from |-> "volume"],
      [name |-> <<"n","u","m","b","e","r">>, from |-> "issue"], [name |-> <<"p","a","g","e","s">>, from |-> "pages"],
      [name |-> <<"d","o","i">>, from |-> "doi"], [name |-> <<"i","s","b","n">>, from |-> "isbn"],
      [name |-> <<"u","r","l","d","a","t","e">>, from |-> "includeAccessDate"]>>

\* the field is to be emitted: its source is a non-empty string; urldate:
\* includeAccessDate is true and url is a non-empty string
emitted(md, from) ==
    IF from = "includeAccessDate"
    THEN md.includeAccessDate = Bool(TRUE) /\ IsString(md.url) /\ md.url.s # <<>>
    ELSE IsString(md[from]) /\ md[from].s # <<>>

\* the names to be emitted, in the fixed order
RECURSIVE expectedNames(_, _)
expectedNames(md, k) ==
    IF k > Len(BibTeXOrder) THEN <<>>
    ELSE (IF emitted(md, BibTeXOrder[k].from) THEN <<BibTeXOrder[k].name>> ELSE <<>>)
             \o expectedNames(md, k + 1)

\* the field names of a BibTeX entry as printed: of each line between the
\* first and the last, the word before " = {"
fieldNames(entry) ==
    LET lines == split(entry, "\n")
        inner == SubSeq(lines, 2, Len(lines) - 1)
        RECURSIVE names(_)
        names(k) == IF k > Len(inner) THEN <<>>
                    ELSE (IF inner[k] = <<>> THEN <<>> ELSE <<split(inner[k], " ")[3]>>)
                             \o names(k + 1)
    IN  names(1)

\* C13: the fields of a BibTeX entry are exactly those whose source field is
\* non-empty (urldate: includeAccessDate true and url non-empty), in the order
\* author, title, year, url, publisher, journal, volume, number, pages, doi,
\* isbn, urldate; number carries the issue.
C13_FieldOrder ==
    (BibTeXCall(call) /\ AbsentOrString(metadata))
        => /\ fieldNames(call.ret.s) = expectedNames(metadata, 1)
           /\ emitted(metadata, "issue")
                 => \E i \in 1..Len(split(call.ret.s, "\n")) :
                        startsWith(split(call.ret.s, "\n")[i],
                                   <<" "," ","n","u","m","b","e","r"," ","="," ","{">> \o metadata.issue.s \o <<"}">>)

C13_Witness ==
    /\ BibTeXCall(call)
    /\ metadata = FullRecord
    /\ Len(fieldNames(call.ret.s)) = 12

\* no string field of the record contains the text sub
noFieldContains(md, sub) ==
    \A f \in TextFields : IsString(md[f]) => ~containsText(md[f].s, sub)

\* the record with includeAccessDate switched on
accessDateOn(md) == [md EXCEPT !.includeAccessDate = Bool(TRUE)]

\* C14: for each of the six styles, the output for a record whose
\* includeAccessDate is off contains neither "Accessed" nor "urldate" (no
\* field of the record containing them), and the otherwise identical record
\* with includeAccessDate on gives the same output unless it gives one with
\* such a clause.
C14_NoAccessClauseWhenOff ==
    (/\ FormatCall(call) /\ IsString(call.ret)
     /\ AbsentOrString(metadata)
     /\ metadata.includeAccessDate # Bool(TRUE)
     /\ noFieldContains(metadata, <<"A","c","c","e","s","s","e","d">>)
     /\ noFieldContains(metadata, <<"u","r","l","d","a","t","e">>))
        => /\ ~containsText(call.ret.s, <<"A","c","c","e","s","s","e","d">>)
           /\ ~containsText(call.ret.s, <<"u","r","l","d","a","t","e">>)
           /\ LET on == format(accessDateOn(metadata), call.arg, call.at)
              IN  \/ on = call.ret
                  \/ /\ IsString(on)
                     /\ \/ containsText(on.s, <<"A","c","c","e","s","s","e","d">>)
                        \/ containsText(on.s, <<"u","r","l","d","a","t","e">>)

C14_Witness ==
    /\ FormatCall(call) /\ IsString(call.ret)
    /\ call.arg = Str(<<"b","i","b","t","e","x">>)
    /\ metadata = [FullRecord EXCEPT !.includeAccessDate = Bool(FALSE)]
    /\ containsText(format(FullRecord, call.arg, call.at).s, <<"u","r","l","d","a","t","e">>)

\* the record is an online source with the access date switched on
onlineWithAccessDate(md) ==
    /\ isWeb(md)
    /\ IsString(md.url) /\ md.url.s # <<>>
    /\ md.includeAccessDate = Bool(TRUE)

\* C15: for an online source (webpage or news with a non-empty url) with
\* includeAccessDate true, the output of each of the six styles carries an
\* access-date clause (an "Accessed" phrase, or the urldate field of BibTeX).
C15_AccessClauseAppended ==
    (FormatCall(call) /\ IsString(call.ret) /\ AbsentOrString(metadata)
        /\ onlineWithAccessDate(metadata))
        => \/ containsText(call.ret.s, <<"A","c","c","e","s","s","e","d">>)
           \/ containsText(call.ret.s, <<"u","r","l","d","a","t","e"," ","="," ","{">> \o isoDate(call.at) \o <<"}">>)

\* the author field as a list of names: its pieces between semicolons, trimmed
namesOf(author) == trimEach(split(author.s, ";"))

\* a name written "Last, First" or "First Last", of two words
twoWords(name) ==
    IF includes(name, ",")
    THEN /\ Len(split(name, ",")) = 2
         /\ \A i \in 1..2 : LET w == trim(split(name, ",")[i])
                             IN  w # <<>> /\ ~includes(w, " ")
    ELSE Len(split(name, " ")) = 2 /\ \A i \in 1..2 : split(name, " ")[i] # <<>>

lastNameOf(name) ==
    IF includes(name, ",") THEN trim(split(name, ",")[1]) ELSE split(name, " ")[2]

firstNameOf(name) ==
    IF includes(name, ",") THEN trim(split(name, ",")[2]) ELSE split(name, " ")[1]

\* Last, F.
lastInitial(name) ==
    lastNameOf(name) \o <<","," ">> \o toUpperCase(sliceTo(firstNameOf(name), 1)) \o <<".">>

AuthorsCall(c, style) ==
    /\ c.op = "formatAuthors" /\ c.arg = Str(style)
    /\ IsString(metadata.author)
    /\ \A i \in 1..Len(namesOf(metadata.author)) : twoWords(namesOf(metadata.author)[i])

\* C16: APA formatting of 3 to 20 authors renders each as "Last, F.", joins
\* all but the last with ", " and puts ", & " before the last; Alice Jones,
\* Bob Lee, Carol Kim, Dan Wu give "Jones, A., Lee, B., Kim, C., & Wu, D.".
C16_ApaAuthorList ==
    AuthorsCall(call, <<"a","p","a">>) =>
        LET names == namesOf(metadata.author)
            n == Len(names)
        IN  /\ n \in 3..ApaMaxAuthors =>
                  call.ret = Str(join([i \in 1..(n - 1) |-> lastInitial(names[i])], <<","," ">>)
                                     \o <<","," ","&"," ">> \o lastInitial(names[n]))
            /\ metadata.author = Str(<<"A","l","i","c","e"," ","J","o","n","e","s",";"," ","B","o","b"," ","L","e","e",";"," ","C","a","r","o","l"," ","K","i","m",";"," ","D","a","n"," ","W","u">>) =>
                  call.ret = Str(<<"J","o","n","e","s",","," ","A",".",","," ","L","e","e",","," ","B",".",","," ","K","i","m",","," ","C",".",","," ","&"," ","W","u",","," ","D",".">>)

C16_Witness ==
    /\ AuthorsCall(call, <<"a","p","a">>)
    /\ metadata.author = Str(<<"A","l","i","c","e"," ","J","o","n","e","s",";"," ","B","o","b"," ","L","e","e",";"," ","C","a","r","o","l"," ","K","i","m",";"," ","D","a","n"," ","W","u">>)
    /\ IsString(call.ret)

\* C17: MLA formatting of three or more authors gives "<Last>, <First>, et
\* al." of the first author, written "Last, First" or "First Last"; no other
\* author appears.
C17_MlaEtAl ==
    AuthorsCall(call, <<"m","l","a">>) =>
        LET names == namesOf(metadata.author)
        IN  Len(names) >= 3 =>
                call.ret = Str(lastNameOf(names[1]) \o <<","," ">> \o firstNameOf(names[1])
                                   \o <<","," ","e","t"," ","a","l",".">>)

C17_Witness ==
    /\ AuthorsCall(call, <<"m","l","a">>)
    /\ metadata.author = Str(<<"A","l","i","c","e"," ","J","o","n","e","s",";"," ","B","o","b"," ","L","e","e",";"," ","C","a","r","o","l"," ","K","i","m">>)
    /\ call.ret = Str(<<"J","o","n","e","s",","," ","A","l","i","c","e",","," ","e","t"," ","a","l",".">>)

\* C18: the record is immutable input: every step (a call of format, which
\* calls generateKeyFromFormat for BibTeX, or of formatAuthors) leaves every
\* field of the record as it was.
C18_RecordUnchanged == [][\A f \in Fields : metadata'[f] = metadata[f]]_vars

C18_Witness ==
    /\ BibTeXCall(call)
    /\ metadata = BlankRecord
    /\ startsWith(call.ret.s, <<"@","m","i","s","c","{","u","n","k","n","o","w","n","_","u","n","t","_">>)

\* C20: when a text field of the record holds a value that is no string (a
\* numeric title or author), format fails with an error for every style and
\* renders no citation.
C20_InvalidRecordFails ==
    (FormatCall(call) /\ ~AbsentOrString(metadata)) => call.ret = Throw

\* C22: for every author string, the author list made by formatAuthors holds
\* only trimmed, non-empty entries, none of them the word "and": empty and
\* whitespace-only segments are dropped.
C22_AuthorListClean ==
    (call.op = "formatAuthors" /\ IsString(metadata.author)) =>
        LET list == authorList(metadata.author.s)
        IN  /\ \A i \in 1..Len(list) :
                  list[i] # <<>> /\ list[i] = trim(list[i]) /\ list[i] # <<"a","n","d">>
            /\ call.arg = Str(<<"b","i","b","t","e","x">>) => call.ret = Str(join(list, <<" ","a","n","d"," ">>))

\* C25: formatDate returns "n.d." exactly when year and date are both absent;
\* for every other record and every style it returns a non-empty string that
\* is not "NaN", also when the date cannot be parsed and the year is absent.
C25_DateNeverEmptyOrNaN ==
    (/\ call.op = "formatDate"
     /\ IsString(metadata.year) \/ metadata.year = Undefined) =>
        IF ~Truthy(metadata.year) /\ ~Truthy(metadata.date)
        THEN call.ret = Str(<<"n",".","d",".">>)
        ELSE /\ IsString(call.ret)
             /\ call.ret.s \notin {<<>>, <<"N","a","N">>, <<"n",".","d",".">>}

\* C28: the last name used for the BibTeX key is that of the first author of
\* the same entry: for every author string, the author the key generator
\* treats as first is the first entry of the list emitted in the author field.
C28_KeyAuthorIsFirstListed ==
    (/\ BibTeXCall(call) /\ IsString(metadata.author)
     /\ authorList(metadata.author.s) # <<>>) =>
        LET list == authorList(metadata.author.s)
        IN  /\ containsText(call.ret.s, <<" "," ","a","u","t","h","o","r"," ","="," ","{">> \o join(list, <<" ","a","n","d"," ">>) \o <<"}">>)
            /\ firstAuthor(metadata.author.s) = list[1]
            /\ cleanLastName(metadata.author.s) = cleanLastName(list[1])

----------------------------------------------------------------------------
(* The identifiers popup.js reads in a URL.  A function that returns null  *)
(* for "no match" is modelled as returning undefined: its callers only     *)
(* test the result for truthiness.                                         *)

\* [^\s"<>]
DoiStop == WhiteSpace \cup {"\"", "<", ">"}

\* length of the match of (?:\.\d+)* at the start of s
RECURSIVE spanDotDigits(_)
spanDotDigits(s) ==
    IF Len(s) >= 2 /\ s[1] = "." /\ s[2] \in DigitSet
    THEN LET n == 1 + spanOf(Tail(s), DigitSet)
         IN  n + spanDotDigits(sliceFrom(s, n))
    ELSE 0

\* line 1026: length of the match of /10\.\d{4,}(?:\.\d+)*\/[^\s"<>]+/ at the
\* start of s, 0 when it does not match there
doiMatchLength(s) ==
    LET digits == spanOf(sliceFrom(s, 3), DigitSet)
        slash == 3 + digits + spanDotDigits(sliceFrom(s, 3 + digits)) + 1
        rest == sliceFrom(s, slash)
        tail == spanOf(rest, Range(rest) \ DoiStop)
    IN  IF /\ startsWith(s, <<"1","0",".">>) /\ digits >= 4
           /\ Len(s) >= slash /\ s[slash] = "/" /\ tail >= 1
        THEN slash + tail ELSE 0

\* lines 1024-1029
extractDoiFromUrl(url) ==
    IF ~Truthy(url) THEN Undefined
    ELSE LET at == {i \in 1..Len(url.s) : doiMatchLength(sliceFrom(url.s, i - 1)) > 0}
         IN  IF at = {} THEN Undefined
             ELSE LET i == CHOOSE k \in at : \A j \in at : k <= j
                      m == SubSeq(url.s, i, i + doiMatchLength(sliceFrom(url.s, i - 1)) - 1)
                  IN  Str(IF m[Len(m)] \in {".", ",", ";"}
                          THEN SubSeq(m, 1, Len(m) - 1) ELSE m)

\* \d{4}\.\d{4,5} at the start of s, <<>> when it does not match there
newArxivId(s) ==
    LET tail == spanOf(sliceFrom(s, 5), DigitSet)
    IN  IF Len(s) >= 9 /\ spanOf(s, DigitSet) = 4 /\ s[5] = "." /\ tail >= 4
        THEN SubSeq(s, 1, 5 + (IF tail >= 5 THEN 5 ELSE 4)) ELSE <<>>

\* [\w-]+\/\d{7} at the start of s, <<>> when it does not match there
oldArxivId(s) ==
    LET w == spanOf(s, LowerSet \cup UpperSet \cup DigitSet \cup {"_", "-"})
    IN  IF /\ w >= 1 /\ Len(s) >= w + 8 /\ s[w + 1] = "/"
           /\ spanOf(sliceFrom(s, w + 1), DigitSet) >= 7
        THEN SubSeq(s, 1, w + 8) ELSE <<>>

\* the id captured by the leftmost match of /<prefix>(<id>)/i in s, <<>> when
\* there is none; old: the id has the form of before 2007
arxivIdAfter(s, prefixes, old) ==
    LET lower == toLowerCase(s)
        ids == [i \in 1..Len(s) |->
                   LET hit == {q \in prefixes : startsWith(sliceFrom(lower, i - 1), q)}
                   IN  IF hit = {} THEN <<>>
                       ELSE LET rest == sliceFrom(s, i - 1 + Len(CHOOSE q \in hit : TRUE))
                            IN  IF old THEN oldArxivId(rest) ELSE newArxivId(rest)]
        at == {i \in 1..Len(s) : ids[i] # <<>>}
    IN  IF at = {} THEN <<>> ELSE ids[CHOOSE k \in at : \A j \in at : k <= j]

\* lines 135-156: the four patterns, tried in order
extractArxivId(url) ==
    IF ~Truthy(url) THEN Undefined
    ELSE LET site == {<<"a","r","x","i","v",".","o","r","g","/","a","b","s","/">>, <<"a","r","x","i","v",".","o","r","g","/","p","d","f","/">>}
             tries == <<arxivIdAfter(url.s, site, FALSE),
                        arxivIdAfter(url.s, site, TRUE),
                        arxivIdAfter(url.s, {<<"a","r","x","i","v",":">>}, FALSE),
                        arxivIdAfter(url.s, {<<"a","r","x","i","v",":">>}, TRUE)>>
             hits == {i \in 1..4 : tries[i] # <<>>}
         IN  IF hits = {} THEN Undefined
             ELSE Str(tries[CHOOSE k \in hits : \A j \in hits : k <= j])

----------------------------------------------------------------------------
(* enhanceMetadataWithSemanticScholar, checked under SpecEnhance.  The     *)
(* response of api.semanticscholar.org is a status ("rejected": fetch or   *)
(* response.json() threw, "not ok", "ok") and the paper of its body, with  *)
(* authors the list of the a.name and journalName, journalVolume,          *)
(* journalPages, DOI, publicationVenueName, publicationVenueType for        *)
(* journal?.name, journal?.volume, journal?.pages, externalIds?.DOI,        *)
(* publicationVenue?.name, publicationVenue?.type.                          *)

\* Mutant: the field is overwritten whenever the API has a value
fillAlways(old, value) == IF Truthy(value) THEN value ELSE old

\* `if (!metadata.x && data.x) metadata.x = data.x`
fillMissing(old, value) == IF ~Truthy(old) /\ Truthy(value) THEN value ELSE old

\* lines 1047-1130: the metadata object after the call (it is also returned)
enhanceMetadataWithSemanticScholar(md, response) ==
    LET doiFromUrl == extractDoiFromUrl(md.url)
        withDoi == IF ~Truthy(md.doi) /\ Truthy(doiFromUrl)
                   THEN [md EXCEPT !.doi = doiFromUrl] ELSE md
        paperId == IF Truthy(withDoi.doi) THEN withDoi.doi ELSE extractArxivId(md.url)
        data == response.data
        year == IF Truthy(data.year) THEN Str(toString(data.year.n)) ELSE Undefined
    IN  IF ~Truthy(paperId) \/ response.status # "ok" THEN withDoi
        ELSE [withDoi EXCEPT
                 !.title = fillMissing(@, data.title),
                 !.author = IF ~Truthy(@) /\ data.authors # <<>>
                            THEN Str(join(data.authors, <<";"," ">>)) ELSE @,
                 !.date = fillMissing(@, OrElse(data.publicationDate, year)),
                 !.year = fillMissing(@, year),
                 !.publisher = fillMissing(@, data.venue),
                 !.journal = fillMissing(@, data.journalName),
                 !.volume = fillMissing(@, data.journalVolume),
                 !.pages = fillMissing(@, data.journalPages),
                 !.doi = fillMissing(@, data.DOI)]

\* a body without any field
EmptyPaper ==
    [title |-> Undefined, authors |-> <<>>, year |-> Undefined,
     publicationDate |-> Undefined, venue |-> Undefined, journalName |-> Undefined,
     journalVolume |-> Undefined, journalPages |-> Undefined, DOI |-> Undefined,
     publicationVenueName |-> Undefined, publicationVenueType |-> Undefined]

\* a published paper
FullPaper ==
    [title |-> Str(<<"A","t","t","e","n","t","i","o","n"," ","I","s"," ","A","l","l"," ","Y","o","u"," ","N","e","e","d">>), authors |-> <<<<"A","n","n"," ","W","u">>, <<"B","o"," ","N","g">>>>,
     year |-> Num(2017), publicationDate |-> Str(<<"2","0","1","7","-","1","2","-","0","4">>),
     venue |-> Str(<<"N","e","u","r","I","P","S">>), journalName |-> Str(<<"N","a","t","u","r","e">>),
     journalVolume |-> Str(<<"3","0">>), journalPages |-> Str(<<"1","-","9">>),
     DOI |-> Str(<<"1","0",".","5","5","5","5","/","3","2","9","5","2","2","2">>),
     publicationVenueName |-> Str(<<"N","e","u","r","a","l"," ","I","n","f","o","r","m","a","t","i","o","n"," ","P","r","o","c","e","s","s","i","n","g"," ","S","y","s","t","e","m","s">>),
     publicationVenueType |-> Str(<<"c","o","n","f","e","r","e","n","c","e">>)]

ApiPapers ==
    {EmptyPaper, FullPaper,
     [EmptyPaper EXCEPT !.title = FullPaper.title, !.year = Num(2017)]}

Responses ==
    {[status |-> "rejected", data |-> EmptyPaper], [status |-> "not ok", data |-> EmptyPaper]}
    \cup {[status |-> "ok", data |-> d] : d \in ApiPapers}

PageUrls ==
    {Str(<<"h","t","t","p","s",":","/","/","a","r","x","i","v",".","o","r","g","/","a","b","s","/","1","7","0","6",".","0","3","7","6","2","v","5">>), Str(<<"h","t","t","p","s",":","/","/","d","o","i",".","o","r","g","/","1","0",".","1","0","0","0","/","x",".">>),
     Str(<<"h","t","t","p","s",":","/","/","e","x",".","o","r","g","/","a">>)}

\* what extractPageMetadata found on the page: each of title, author, date
\* and doi found or empty; or only the URL of the tab (line 1155)
PageRecords ==
    {[BlankRecord EXCEPT
         !.url = u,
         !.title = IF ti THEN Str(<<"A","t","t","e","n","t","i","o","n">>) ELSE Str(<<>>),
         !.author = IF au THEN Str(<<"V","a","s","w","a","n","i",","," ","A",".">>) ELSE Str(<<>>),
         !.date = IF da THEN Str(<<"2","0","1","7","-","0","6","-","1","2">>) ELSE Str(<<>>),
         !.doi = IF doi THEN Str(<<"1","0",".","4","8","5","5","0","/","a","r","X","i","v",".","1","7","0","6",".","0","3","7","6","2">>) ELSE Str(<<>>)] :
        u \in PageUrls, ti \in BOOLEAN, au \in BOOLEAN, da \in BOOLEAN, doi \in BOOLEAN}
    \cup {[BlankRecord EXCEPT !.url = u] : u \in PageUrls}

InitEnhance ==
    /\ metadata \in PageRecords
    /\ now = FirstDay
    /\ call = NoCall
    /\ popup = ClosedPopup(PlainPage)

\* lines 1168 and 1047-1130: arg is the record before the call
CallEnhance ==
    \E response \in Responses :
        /\ \E md \in {enhanceMetadataWithSemanticScholar(metadata, response)} : metadata' = md
        /\ call' = [op |-> "enhanceMetadataWithSemanticScholar", arg |-> metadata,
                    at |-> now, ret |-> metadata']
        /\ UNCHANGED <<now, popup>>

NextEnhance == CallEnhance

SpecEnhance == InitEnhance /\ [][NextEnhance]_vars

----------------------------------------------------------------------------
(* The form of the popup and the Copy button, checked under SpecCopy.  The *)
(* value of a form field is a string; popup holds the form, the selectors, *)
(* the clipboard and the toast.                                            *)

FormFields == {"title", "author", "date", "url", "publisher", "doi", "isbn",
               "journal", "volume", "issue", "pages"}

EmptyForm == [f \in FormFields |-> <<>>]

\* line 106: dateValue.match(/(\d{4})/), '' when there is no match
yearMatch(dateValue) ==
    LET at == {i \in 1..(Len(dateValue) - 3) :
                  \A j \in 0..3 : dateValue[i + j] \in DigitSet}
    IN  IF at = {} THEN <<>>
        ELSE LET i == CHOOSE k \in at : \A j \in at : k <= j
             IN  SubSeq(dateValue, i, i + 3)

\* lines 104-126
getMetadata(p) ==
    [f \in Fields |->
        CASE f = "year" -> Str(yearMatch(trim(p.fields.date)))
          [] f = "sourceType" -> Str(p.sourceType)
          [] f = "includeAccessDate" -> Bool(p.includeAccessDate)
          [] f = "keyFormat" -> p.currentKeyFormat
          [] OTHER -> Str(trim(p.fields[f]))]

\* lines 499-503: textContent read back as innerHTML
escapeHtml(s) ==
    replaceAll(replaceAll(replaceAll(s, <<"&">>, <<"&","a","m","p",";">>), <<"<">>, <<"&","l","t",";">>), <<">">>, <<"&","g","t",";">>)

\* the character U+0060 (grave accent), which a string of this notation cannot
\* hold, and the fence of a Markdown code block made of three of them
Backquote == "U+0060"
Fence == <<Backquote, Backquote, Backquote>>

\* lines 468-496, for citation the result of CitationFormatter.format(metadata,
\* style) at line 473
getFormattedCitation(p, citation) ==
    LET bibtex == p.style = <<"b","i","b","t","e","x">>
    IN  IF ~IsString(citation) THEN citation
        ELSE CASE p.outputFormat = "markdown" ->
                    IF bibtex THEN Str(Fence \o <<"b","i","b","t","e","x","\n">> \o citation.s \o <<"\n">> \o Fence)
                    ELSE Str(<<">"," ">> \o citation.s)
               [] p.outputFormat = "html" ->
                    IF bibtex
                    THEN Str(<<"<","p","r","e",">","<","c","o","d","e"," ","c","l","a","s","s","=","\"","l","a","n","g","u","a","g","e","-","b","i","b","t","e","x","\"",">">>
                                 \o escapeHtml(citation.s) \o <<"<","/","c","o","d","e",">","<","/","p","r","e",">">>)
                    ELSE Str(<<"<","p"," ","c","l","a","s","s","=","\"","c","i","t","a","t","i","o","n","\"",">">> \o escapeHtml(citation.s) \o <<"<","/","p",">">>)
               [] OTHER -> citation

NoToast == [message |-> "", isError |-> FALSE]

\* lines 510-563: the popup after a click on Copy, for citation the result of
\* getFormattedCitation() at line 511; copied: writeText or the execCommand
\* fallback succeeded.  When format throws the handler ends there.
copyCitation(p, citation, copied) ==
    IF citation = Throw THEN p
    ELSE IF ~Truthy(citation)
    THEN [p EXCEPT !.toast = [message |-> "No citation to copy", isError |-> TRUE]]
    ELSE IF copied
    THEN [p EXCEPT !.clipboard = citation,
                   !.toast = [message |-> "Citation copied to clipboard!",
                              isError |-> FALSE]]
    ELSE [p EXCEPT !.toast = [message |-> "Failed to copy citation", isError |-> TRUE]]

\* what the form holds when Copy is clicked
CopyForms ==
    {EmptyForm,
     [EmptyForm EXCEPT !.title = <<" ">>],
     [EmptyForm EXCEPT !.date = <<"M","a","y"," ","2","0","2","4">>],
     [EmptyForm EXCEPT !.url = <<"h","t","t","p","s",":","/","/","e","x",".","o","r","g","/","a">>],
     [EmptyForm EXCEPT !.title = <<"R","&","D"," ","<","n","o","w",">">>, !.author = <<"S","m","i","t","h",","," ","J","o","h","n">>,
                       !.date = <<"2","0","2","4","-","0","1","-","1","5">>, !.url = <<"h","t","t","p","s",":","/","/","e","x",".","o","r","g","/","a">>],
     [EmptyForm EXCEPT !.title = <<"N","o","t","e","s">>, !.author = <<";">>]}

OutputFormats == {"plain", "markdown", "html"}

InitCopy ==
    /\ metadata = BlankRecord
    /\ now = FirstDay
    /\ call = NoCall
    /\ popup \in [fields : CopyForms, sourceType : {<<"w","e","b","p","a","g","e">>, <<"a","r","t","i","c","l","e">>},
                  includeAccessDate : {TRUE}, currentKeyFormat : {Str(DEFAULT_KEY_FORMAT)},
                  style : Styles, outputFormat : OutputFormats,
                  clipboard : {Undefined}, toast : {NoToast}]

\* line 1351: the click on Copy
CopyCitation ==
    /\ \E copied \in BOOLEAN, md \in {getMetadata(popup)} :
          \E formatted \in {format(md, Str(popup.style), now)} :
             \E citation \in {getFormattedCitation(popup, formatted)} :
                popup' = copyCitation(popup, citation, copied)
    /\ UNCHANGED <<metadata, now, call>>

NextCopy == CopyCitation

SpecCopy == InitCopy /\ [][NextCopy]_vars

----------------------------------------------------------------------------
(* The version switcher, checked under SpecVersions.  popup holds the page *)
(* of the tab (what extractPageMetadata returns there), the form, the      *)
(* source type selector, arxivVersion, peerReviewedVersion, currentVersion,*)
(* whether the switcher is shown, and for each fetchMetadata call in       *)
(* flight the await it is suspended at: "query" (chrome.tabs.query),       *)
(* "script" (executeScript), "enhance" (the fetch of                       *)
(* enhanceMetadataWithSemanticScholar), "lookup" (the fetch of             *)
(* checkForPeerReviewedVersion); "idle" is a call that has returned.       *)

VersionFields == FormFields \ {"isbn"}

\* lines 314-321
hideVersionSwitcher(p) ==
    [p EXCEPT !.switcherShown = FALSE, !.peerReviewedVersion = Null,
              !.arxivVersion = Null, !.currentVersion = "arxiv"]

\* lines 303-312
showVersionSwitcher(p) == [p EXCEPT !.currentVersion = "arxiv", !.switcherShown = TRUE]

\* lines 1196-1220
populateFields(p, md) ==
    [p EXCEPT
        !.fields = [f \in FormFields |-> IF Truthy(md[f]) THEN md[f].s ELSE p.fields[f]],
        !.sourceType = IF Truthy(md.journal) \/ Truthy(md.doi) THEN <<"j","o","u","r","n","a","l">>
                       ELSE IF Truthy(md.isbn) THEN <<"b","o","o","k">> ELSE @]

\* lines 192-222: checkForPeerReviewedVersion(tab.url) called by the
\* fetchMetadata call i, up to its await
checkForPeerReviewedVersion(p, i) ==
    LET arxivId == extractArxivId(p.page.url)
    IN  IF ~Truthy(arxivId) THEN [hideVersionSwitcher(p) EXCEPT !.tasks[i] = "idle"]
        ELSE [p EXCEPT
                 !.arxivVersion = [f \in VersionFields \cup {"arxivId"} |->
                                      IF f = "arxivId" THEN arxivId ELSE Str(p.fields[f])],
                 !.tasks[i] = "lookup"]

\* lines 236-243
isArxivOrPreprint(name) ==
    \/ ~Truthy(name)
    \/ \E word \in {<<"a","r","x","i","v">>, <<"p","r","e","p","r","i","n","t">>, <<"c","o","r","r">>} : containsText(toLowerCase(name.s), word)

\* lines 245-287: peerReviewedVersion for the body data, null when the paper
\* has no venue, journal or DOI of its own
publishedVersion(data, arxivId) ==
    LET hasVenue == ~isArxivOrPreprint(data.venue)
        hasPublicationVenue == ~isArxivOrPreprint(data.publicationVenueName)
        hasJournal == ~isArxivOrPreprint(data.journalName)
        hasDoi == Truthy(data.DOI) /\ ~containsText(toLowerCase(data.DOI.s), <<"a","r","x","i","v">>)
        venueName == OrElse(data.publicationVenueName, OrElse(data.venue, Str(<<>>)))
        isConference == data.publicationVenueType = Str(<<"c","o","n","f","e","r","e","n","c","e">>)
        year == IF Truthy(data.year) THEN Str(toString(data.year.n)) ELSE Str(<<>>)
    IN  IF ~(hasVenue \/ hasPublicationVenue \/ hasJournal \/ hasDoi) THEN Null
        ELSE [title |-> data.title,
              author |-> Str(join(data.authors, <<";"," ">>)),
              year |-> year,
              date |-> OrElse(data.publicationDate, year),
              venue |-> venueName,
              publisher |-> venueName,
              journal |-> IF ~isConference /\ hasJournal THEN data.journalName ELSE Str(<<>>),
              volume |-> OrElse(data.journalVolume, Str(<<>>)),
              issue |-> Str(<<>>),
              pages |-> OrElse(data.journalPages, Str(<<>>)),
              doi |-> OrElse(data.DOI, Str(<<>>)),
              url |-> IF Truthy(data.DOI)
                      THEN Str(<<"h","t","t","p","s",":","/","/","d","o","i",".","o","r","g","/">> \o data.DOI.s) ELSE Str(<<>>),
              arxivId |-> arxivId,
              isConference |-> isConference]

\* lines 367-408
switchToVersion(p, version) ==
    LET chosen == IF version = "arxiv" THEN p.arxivVersion ELSE p.peerReviewedVersion
        sourceType == IF version = "arxiv" \/ chosen.isConference
                      THEN <<"a","r","t","i","c","l","e">> ELSE <<"j","o","u","r","n","a","l">>
    IN  IF version = p.currentVersion THEN p
        ELSE IF chosen = Null THEN [p EXCEPT !.currentVersion = version]
        ELSE [p EXCEPT
                 !.currentVersion = version,
                 !.fields = [f \in FormFields |->
                                IF f \in VersionFields
                                THEN OrElse(chosen[f], Str(<<>>)).s ELSE p.fields[f]],
                 !.sourceType = sourceType]

\* the pages of the model: an arXiv abstract and an ordinary page, with or
\* without an author and a DOI in their meta tags
VersionPages ==
    {r \in PageRecords :
        /\ r.title = Str(<<"A","t","t","e","n","t","i","o","n">>) /\ r.date = Str(<<"2","0","1","7","-","0","6","-","1","2">>)
        /\ extractDoiFromUrl(r.url) = Undefined}

\* a paper that is still a preprint, and one published in a journal
PreprintPaper ==
    [EmptyPaper EXCEPT !.title = FullPaper.title, !.venue = Str(<<"a","r","X","i","v",".","o","r","g">>),
                       !.DOI = Str(<<"1","0",".","4","8","5","5","0","/","a","r","X","i","v",".","1","7","0","6",".","0","3","7","6","2">>)]
JournalPaper == [FullPaper EXCEPT !.publicationVenueType = Str(<<"j","o","u","r","n","a","l">>)]

LookupResponses ==
    {[status |-> "rejected", data |-> EmptyPaper], [status |-> "not ok", data |-> EmptyPaper]}
    \cup {[status |-> "ok", data |-> d] : d \in {FullPaper, JournalPaper, PreprintPaper}}

\* lines 1490-1491: preferences are loaded, fetchMetadata awaits the tab
InitVersions ==
    /\ metadata = BlankRecord
    /\ now = FirstDay
    /\ call = NoCall
    /\ popup \in [page : VersionPages,
                  tasks : {[i \in 1..MaxTasks |-> IF i = 1 THEN "query" ELSE "idle"]},
                  fields : {EmptyForm},
                  sourceType : {<<"w","e","b","p","a","g","e">>, <<"a","r","t","i","c","l","e">>},
                  arxivVersion : {Null}, peerReviewedVersion : {Null},
                  currentVersion : {"arxiv"}, switcherShown : {FALSE}]

\* lines 1352-1358: the click on Refresh, up to the first await of fetchMetadata
ClickRefresh ==
    /\ \E i \in 1..MaxTasks :
          /\ popup.tasks[i] = "idle" /\ \A j \in 1..(i - 1) : popup.tasks[j] # "idle"
          /\ popup' = [hideVersionSwitcher(popup) EXCEPT
                          !.fields = EmptyForm, !.tasks[i] = "query"]
    /\ UNCHANGED <<metadata, now, call>>

\* lines 1138-1152: the tab is known, executeScript is awaited
TabQueried ==
    /\ \E i \in 1..MaxTasks :
          /\ popup.tasks[i] = "query"
          /\ popup' = [popup EXCEPT !.fields.url = popup.page.url.s, !.tasks[i] = "script"]
    /\ UNCHANGED <<metadata, now, call>>

\* lines 1152-1190: executeScript returned the metadata of the page, or threw
\* (the catch fills url and title from the tab)
ScriptReturned ==
    /\ \E i \in 1..MaxTasks, scriptOk \in BOOLEAN :
          /\ popup.tasks[i] = "script"
          /\ \E filled \in {populateFields(popup, popup.page)} : popup' =
               IF ~scriptOk
               THEN [popup EXCEPT !.fields.url = popup.page.url.s,
                                  !.fields.title = popup.page.title.s,
                                  !.tasks[i] = "idle"]
               ELSE IF isMetadataIncomplete(
                          [author |-> trim(popup.page.author.s) # <<>>,
                           title |-> trim(popup.page.title.s) # <<>>,
                           date |-> trim(popup.page.date.s) # <<>>,
                           doi |-> Truthy(popup.page.doi)])
               THEN [popup EXCEPT !.tasks[i] = "enhance"]
               ELSE checkForPeerReviewedVersion(filled, i)
    /\ UNCHANGED <<metadata, now, call>>

\* lines 1168-1175: the enhancement returned
EnhanceReturned ==
    /\ \E i \in 1..MaxTasks, response \in Responses :
          /\ popup.tasks[i] = "enhance"
          /\ \E md \in {enhanceMetadataWithSemanticScholar(popup.page, response)} :
                \E filled \in {populateFields(popup, md)} :
                   popup' = checkForPeerReviewedVersion(filled, i)
    /\ UNCHANGED <<metadata, now, call>>

\* lines 224-297: the lookup of checkForPeerReviewedVersion returned
LookupReturned ==
    /\ \E i \in 1..MaxTasks, response \in LookupResponses :
          /\ popup.tasks[i] = "lookup"
          /\ \E arxivId \in {extractArxivId(popup.page.url)} :
                \E version \in {IF response.status = "ok"
                                 THEN publishedVersion(response.data, arxivId) ELSE Null} :
                   LET done == [popup EXCEPT !.tasks[i] = "idle"]
                   IN  popup' = IF version # Null
                                THEN showVersionSwitcher(
                                         [done EXCEPT !.peerReviewedVersion = version])
                                ELSE hideVersionSwitcher(done)
    /\ UNCHANGED <<metadata, now, call>>

\* lines 1333-1338: a click on a button of the switcher
SwitchToVersion ==
    /\ popup.switcherShown
    /\ \E version \in {"arxiv", "published"} : popup' = switchToVersion(popup, version)
    /\ UNCHANGED <<metadata, now, call>>

NextVersions ==
    \/ ClickRefresh \/ TabQueried \/ ScriptReturned \/ EnhanceReturned
    \/ LookupReturned \/ SwitchToVersion

SpecVersions == InitVersions /\ [][NextVersions]_vars

----------------------------------------------------------------------------
(* Properties of the popup, checked under SpecPopup.                       *)

\* C19: no operation of the extension (the initial metadata fetch, Refresh,
\* saving the settings, the Zotero test or save) sends a request to a remote
\* server; the metadata of the page never leaves the device.
C19_NoRemoteRequest == popup.requests = {}

\* C24: enhanceMetadataWithSemanticScholar only fills in missing fields: every
\* field that is non-empty before the call has the same value after it,
\* whatever the API returns, also when the request fails or is not OK.
C24_OnlyFillsMissing ==
    call.op = "enhanceMetadataWithSemanticScholar" =>
        /\ call.ret = metadata
        /\ \A f \in Fields : Truthy(call.arg[f]) => metadata[f] = call.arg[f]

\* the API returned another title and the authors: the title of the page was
\* kept, the missing author was filled in
C24_Witness ==
    /\ call.op = "enhanceMetadataWithSemanticScholar"
    /\ call.arg.title = Str(<<"A","t","t","e","n","t","i","o","n">>) /\ call.arg.author = Str(<<>>)
    /\ metadata.title = Str(<<"A","t","t","e","n","t","i","o","n">>) /\ metadata.author = Str(<<"A","n","n"," ","W","u",";"," ","B","o"," ","N","g">>)
    /\ metadata.year = Str(<<"2","0","1","7">>)

\* C27: when the verification of the Zotero credentials fails on a click on
\* Save in the settings, no setting changes: nothing is written to storage and
\* currentKeyFormat keeps the value it had before the click.
C27_RefusedSaveChangesNothing ==
    [][\A outcome \in VerifyOutcomes \ {"valid"} :
          (/\ popup.loaded /\ popup.inputs.apiKey /\ popup.inputs.userId
           /\ SaveSettingsWith(outcome))
              => /\ popup'.stored = popup.stored
                 /\ popup'.storedKeyFormat = popup.storedKeyFormat
                 /\ popup'.currentKeyFormat = popup.currentKeyFormat]_vars

\* C30: when title, author and url are all empty, a click on Copy writes
\* nothing to the clipboard and shows the error toast "No citation to copy".
C30_NothingToCopy ==
    LET md == getMetadata(popup)
    IN  (/\ popup.toast # NoToast
         /\ ~Truthy(md.title) /\ ~Truthy(md.author) /\ ~Truthy(md.url)) =>
            /\ popup.clipboard = Undefined
            /\ popup.toast = [message |-> "No citation to copy", isError |-> TRUE]

\* C26: under any interleaving of refresh clicks, the initial metadata fetch
\* and in-flight peer-review lookups, whenever the version switcher is shown
\* both arxivVersion and peerReviewedVersion are non-null.
C26_SwitcherHasBothVersions ==
    popup.switcherShown => popup.arxivVersion # Null /\ popup.peerReviewedVersion # Null

\* C29: once the switcher is shown, switching to 'published' and then back to
\* 'arxiv' is a round trip: every form field and the source type selector have
\* the values they had immediately before the switch to 'published'.
C29_RoundTrip ==
    (popup.switcherShown /\ popup.currentVersion = "arxiv") =>
        LET back == switchToVersion(switchToVersion(popup, "published"), "arxiv")
        IN  back.fields = popup.fields /\ back.sourceType = popup.sourceType

====
